---- MODULE Spec2Model ----
(***************************************************************************)
(* Model of the put-sync.py / get-sync.py synchronisation scripts          *)
(* (scripts/sync).  Two machines share one remote repository.  A machine   *)
(* state is a git repository (local branches, remote-tracking refs, HEAD,  *)
(* index, working tree); the scripts are sequential programs whose steps   *)
(* are the git commands they run.  A git command either does what git      *)
(* does, or fails (no effect, non-zero return code); remote commands may   *)
(* also time out (return code -2).                                         *)
(***************************************************************************)
EXTENDS Integers, Sequences, FiniteSets, TLC

VARIABLES remote, repo, proc, log, pre, clock, started, cfg, call

vars == <<remote, repo, proc, log, pre, clock, started, cfg, call>>

(***************************************************************************)
(* Bounds of the model.                                                    *)
(***************************************************************************)
MaxRuns  == 2      \* script runs per machine
MaxLen   == 3      \* characters of a candidate branch name

(***************************************************************************)
(* Program constants.                                                      *)
(***************************************************************************)
\* a loop that tries once more than range(3)
MaxAttemptsOneMore == 3 + 1

MaxAttempts == 3   \* for attempt in range(3)
RcTimeout   == -2  \* run_command: subprocess.TimeoutExpired
RcFail      == 1   \* any other non-zero return code of git

Machines == {"A", "B"}

(***************************************************************************)
(* Files and trees.  A tree maps every file to a content version, 0 for a  *)
(* file that is absent.                                                    *)
(***************************************************************************)
Files    == {"f", "g"}
Contents == 0..2
Tree     == {t \in [Files -> Contents] : t["g"] <= 1}

MkTree(f, g) == [x \in Files |-> IF x = "f" THEN f ELSE g]

(***************************************************************************)
(* Commits are structural: a tree and the sequence of parent commits.      *)
(***************************************************************************)
MkCommit(t, ps) == [tree |-> t, parents |-> ps]

RECURSIVE Ancestors(_)
Ancestors(c) ==
    {c} \cup UNION {Ancestors(c.parents[i]) : i \in 1..Len(c.parents)}

IsAncestor(a, b) == a \in Ancestors(b)

\* the best common ancestor of two commits with a common root
MergeBase(a, b) ==
    LET common == Ancestors(a) \cap Ancestors(b)
    IN  CHOOSE x \in common : \A y \in common : IsAncestor(y, x)

(***************************************************************************)
(* Branch names are character sequences.                                   *)
(***************************************************************************)
SyncPrefix   == <<"s", "y", "n", "c", "-", "o", "f", "-">>
BackupPrefix == <<"b", "a", "c", "k", "u", "p", "_">>
Main         == <<"m", "a", "i", "n">>
NoName       == <<>>
OsUser       == <<"u">>

StartsWith(s, p) == Len(s) >= Len(p) /\ SubSeq(s, 1, Len(p)) = p

Digits == <<"0", "1", "2", "3", "4", "5", "6", "7", "8", "9">>

\* the characters of the model's names, in ASCII order
Chars ==
    <<" ", "-">> \o Digits \o
    <<"_", "a", "b", "c", "f", "i", "k", "m", "n", "o", "p", "s", "u", "y">>

CharRank(ch) ==
    IF \E i \in 1..Len(Chars) : Chars[i] = ch
    THEN CHOOSE i \in 1..Len(Chars) : Chars[i] = ch
    ELSE 0

\* the order of Python's str comparison, and of git's branch listing
RECURSIVE LexLess(_, _)
LexLess(s, t) ==
    IF s = <<>> THEN t # <<>>
    ELSE IF t = <<>> THEN FALSE
    ELSE IF Head(s) = Head(t) THEN LexLess(Tail(s), Tail(t))
    ELSE CharRank(Head(s)) < CharRank(Head(t))

\* sorted(names), as a sequence
RECURSIVE Sorted(_)
Sorted(S) ==
    IF S = {} THEN <<>>
    ELSE LET least == CHOOSE x \in S : \A y \in S \ {x} : LexLess(x, y)
         IN  <<least>> \o Sorted(S \ {least})

\* strftime: zero-padded, fixed width
Strftime(ts) == <<Digits[(ts \div 10) + 1], Digits[(ts % 10) + 1]>>

(***************************************************************************)
(* Partial functions for refs.                                             *)
(***************************************************************************)
NoRefs == [n \in {} |-> 0]

SetRef(refs, n, c) ==
    [x \in DOMAIN refs \cup {n} |-> IF x = n THEN c ELSE refs[x]]

DelRef(refs, n) == [x \in DOMAIN refs \ {n} |-> refs[x]]

(***************************************************************************)
(* The git commands the scripts run, as functions of a repository          *)
(*   r = [head, br, rt, idx, wt, merging]                                  *)
(* head: the checked-out branch; br: local branches; rt: remote-tracking   *)
(* refs origin/*; idx: the index; wt: the working tree; merging: a merge   *)
(* stopped on a conflict.  Each returns [ok, r] (remote commands also      *)
(* rem, the remote's refs): ok is whether git accepts the command, r the   *)
(* repository after it.                                                    *)
(***************************************************************************)
HeadCommit(r) == r.br[r.head]

\* git diff --cached --quiet: index against HEAD
GitDiffCached(r) == IF r.idx # HeadCommit(r).tree THEN 1 ELSE 0

\* git diff --quiet: working tree against index, for the paths in the index
GitDiff(r) ==
    IF \E f \in Files : r.idx[f] # 0 /\ r.wt[f] # r.idx[f] THEN 1 ELSE 0

\* moving index and working tree from commit `from` to commit `to`: a path
\* that differs between them must be unmodified, or already at `to` in the index
CanCheckout(r, from, to) ==
    \A f \in Files :
        from.tree[f] # to.tree[f] =>
            \/ r.idx[f] = to.tree[f]
            \/ r.idx[f] = from.tree[f] /\ r.wt[f] = from.tree[f]

Checkout(r, from, to) ==
    [r EXCEPT
        !.idx = [f \in Files |->
                    IF from.tree[f] = to.tree[f] THEN r.idx[f] ELSE to.tree[f]],
        !.wt  = [f \in Files |->
                    IF from.tree[f] = to.tree[f] \/ r.idx[f] = to.tree[f]
                    THEN r.wt[f] ELSE to.tree[f]]]

\* git add -A
GitAddAll(r) == [ok |-> TRUE, r |-> [r EXCEPT !.idx = r.wt]]

\* git commit -m "WIP sync commit"
GitCommit(r) ==
    IF r.idx = HeadCommit(r).tree
    THEN [ok |-> FALSE, r |-> r]
    ELSE [ok |-> TRUE,
          r  |-> [r EXCEPT !.br = SetRef(r.br, r.head,
                                         MkCommit(r.idx, <<HeadCommit(r)>>))]]

\* git switch -c <n>
GitSwitchCreate(r, n) ==
    IF n \in DOMAIN r.br \/ n = NoName
    THEN [ok |-> FALSE, r |-> r]
    ELSE [ok |-> TRUE,
          r  |-> [r EXCEPT !.br = SetRef(r.br, n, HeadCommit(r)), !.head = n]]

\* git switch -c <n> origin/<n>
GitSwitchTrack(r, n) ==
    IF \/ n \in DOMAIN r.br
       \/ n \notin DOMAIN r.rt
       \/ ~CanCheckout(r, HeadCommit(r), r.rt[n])
    THEN [ok |-> FALSE, r |-> r]
    ELSE [ok |-> TRUE,
          r  |-> [Checkout(r, HeadCommit(r), r.rt[n]) EXCEPT
                     !.br = SetRef(r.br, n, r.rt[n]), !.head = n]]

\* git switch <n>
GitSwitch(r, n) ==
    IF n \notin DOMAIN r.br \/ ~CanCheckout(r, HeadCommit(r), r.br[n])
    THEN [ok |-> FALSE, r |-> r]
    ELSE [ok |-> TRUE,
          r  |-> [Checkout(r, HeadCommit(r), r.br[n]) EXCEPT !.head = n]]

\* git branch -D <n>
GitBranchDelete(r, n) ==
    IF n \notin DOMAIN r.br \/ n = r.head
    THEN [ok |-> FALSE, r |-> r]
    ELSE [ok |-> TRUE, r |-> [r EXCEPT !.br = DelRef(r.br, n)]]

\* git reset --soft HEAD~1
GitResetSoft(r) ==
    IF HeadCommit(r).parents = <<>>
    THEN [ok |-> FALSE, r |-> r]
    ELSE [ok |-> TRUE,
          r  |-> [r EXCEPT !.br = SetRef(r.br, r.head, HeadCommit(r).parents[1])]]

\* three-way merge of one path
Merge3(base, ours, theirs) ==
    IF ours = theirs THEN ours
    ELSE IF ours = base THEN theirs
    ELSE IF theirs = base THEN ours
    ELSE -1

\* git merge <n>
GitMerge(r, n) ==
    IF n \notin DOMAIN r.br THEN [ok |-> FALSE, r |-> r]
    ELSE
    LET ours   == HeadCommit(r)
        theirs == r.br[n]
        base   == MergeBase(ours, theirs)
        merged == [f \in Files |-> Merge3(base.tree[f], ours.tree[f], theirs.tree[f])]
        mc     == MkCommit(merged, <<ours, theirs>>)
    IN  IF IsAncestor(theirs, ours)
        THEN [ok |-> TRUE, r |-> r]                         \* already up to date
        ELSE IF IsAncestor(ours, theirs)
        THEN IF CanCheckout(r, ours, theirs)                 \* fast-forward
             THEN [ok |-> TRUE,
                   r  |-> [Checkout(r, ours, theirs) EXCEPT
                              !.br = SetRef(r.br, r.head, theirs)]]
             ELSE [ok |-> FALSE, r |-> r]
        ELSE IF \/ r.idx # ours.tree                         \* true merge
                \/ \E f \in Files : merged[f] # ours.tree[f] /\ r.wt[f] # ours.tree[f]
             THEN [ok |-> FALSE, r |-> r]
             ELSE IF \E f \in Files : merged[f] = -1
             THEN [ok |-> FALSE, r |-> [r EXCEPT !.merging = TRUE]]
             ELSE [ok |-> TRUE,
                   r  |-> [Checkout(r, ours, mc) EXCEPT
                              !.br = SetRef(r.br, r.head, mc)]]

\* git push origin <n>
GitPush(r, rem, n) ==
    IF n \notin DOMAIN r.br \/ (n \in DOMAIN rem /\ ~IsAncestor(rem[n], r.br[n]))
    THEN [ok |-> FALSE, r |-> r, rem |-> rem]
    ELSE [ok  |-> TRUE,
          r   |-> [r EXCEPT !.rt = SetRef(r.rt, n, r.br[n])],
          rem |-> SetRef(rem, n, r.br[n])]

\* git push origin --delete <n>
GitPushDelete(r, rem, n) ==
    IF n \notin DOMAIN rem
    THEN [ok |-> FALSE, r |-> r, rem |-> rem]
    ELSE [ok  |-> TRUE,
          r   |-> [r EXCEPT !.rt = DelRef(r.rt, n)],
          rem |-> DelRef(rem, n)]

\* git fetch: remote-tracking refs follow the remote; refs deleted on the
\* remote are not pruned
GitFetch(r, rem) ==
    [ok  |-> TRUE,
     r   |-> [r EXCEPT !.rt = [n \in DOMAIN r.rt \cup DOMAIN rem |->
                                  IF n \in DOMAIN rem THEN rem[n] ELSE r.rt[n]]],
     rem |-> rem]

\* git rev-parse --verify origin/<n>
GitRevParseVerify(r, n) == IF n \in DOMAIN r.rt THEN 0 ELSE 1

(***************************************************************************)
(* validate_branch_name: the regular expression                            *)
(*   ^(?!/)(?!.*(?:\.$|/\.|//|@\{))[^\000-\037\177 ~^:?*\[\\]+$            *)
(* and the list of reserved names.  "\n" and "\t" stand for the control    *)
(* characters; `$` also matches before one final newline, and `.` matches  *)
(* every character but a newline.                                          *)
(***************************************************************************)
Excluded == {"\n", "\t", " ", "~", "^", ":", "?", "*", "[", "\\"}

Reserved ==
    { <<".">>, <<".", ".">>, <<"/">>,
      <<"H", "E", "A", "D">>,
      <<"O", "R", "I", "G", "_", "H", "E", "A", "D">>,
      <<"F", "E", "T", "C", "H", "_", "H", "E", "A", "D">>,
      <<"M", "E", "R", "G", "E", "_", "H", "E", "A", "D">>,
      <<"C", "H", "E", "R", "R", "Y", "_", "P", "I", "C", "K", "_", "H", "E", "A", "D">> }

\* positions at which `$` matches
AtEnd(s, i) == i = Len(s) + 1 \/ (i = Len(s) /\ s[i] = "\n")

\* the lookahead without its  \.$  alternative
LookaheadHitsNoDot(s) ==
    \E i \in 1..Len(s) :
        /\ \A j \in 1..(i - 1) : s[j] # "\n"
        /\ \/ i < Len(s) /\ s[i] = "/" /\ s[i + 1] = "."
           \/ i < Len(s) /\ s[i] = "/" /\ s[i + 1] = "/"
           \/ i < Len(s) /\ s[i] = "@" /\ s[i + 1] = "{"

\* the second lookahead finds one of  \.$  /\.  //  @\{  after a run of
\* non-newline characters
LookaheadHits(s) ==
    \E i \in 1..Len(s) :
        /\ \A j \in 1..(i - 1) : s[j] # "\n"
        /\ \/ s[i] = "." /\ AtEnd(s, i + 1)
           \/ i < Len(s) /\ s[i] = "/" /\ s[i + 1] = "."
           \/ i < Len(s) /\ s[i] = "/" /\ s[i + 1] = "/"
           \/ i < Len(s) /\ s[i] = "@" /\ s[i + 1] = "{"

RegexMatch(s) ==
    /\ Len(s) > 0
    /\ s[1] # "/"
    /\ ~LookaheadHits(s)
    /\ \E k \in 1..Len(s) :
          /\ \A j \in 1..k : s[j] \notin Excluded
          /\ AtEnd(s, k + 1)

\* a validator that lets every name through
validate_branch_name_accepts(branch_name) == TRUE

validate_branch_name(branch_name) ==
    IF ~RegexMatch(branch_name) THEN FALSE
    ELSE IF branch_name \in Reserved THEN FALSE
    ELSE TRUE

(***************************************************************************)
(* Processes.  proc[m] is the script running on machine m:                 *)
(*   script, pc, exit (-1 while no exit status), the script's locals       *)
(*   current_branch, default_sync_branch, sync_branch, backup_branch,      *)
(*   attempt, rc, choice (empty, or the last answer at the prompt), and    *)
(*   the history fields made_backup (the backup branch the run created),   *)
(*   prompted and validated (the names validate_branch_name has passed).   *)
(* log[m] lists the mutating and remote git commands of the current run,   *)
(* pre[m] is the repository and the remote as the run found them, started  *)
(* the runs in the order they began.                                       *)
(***************************************************************************)
IdleProc ==
    [script |-> "none", pc |-> "idle", exit |-> -1,
     current_branch |-> NoName, default_sync_branch |-> NoName,
     sync_branch |-> NoName, backup_branch |-> NoName,
     attempt |-> 0, rc |-> 0, made_backup |-> NoName, prompted |-> FALSE,
     validated |-> {}, choice |-> <<>>]

Running(m) == proc[m].pc \notin {"idle", "exit"}

\* outcomes the environment may give a command
Outcomes       == IF cfg.faults THEN {"ok", "fail"} ELSE {"ok"}
RemoteOutcomes == IF cfg.faults THEN {"ok", "fail", "timeout", "timeout_done"}
                                ELSE {"ok"}

\* run_command: return code of a command git accepts (res.ok) under outcome o
Rc(res, o) ==
    IF o \in {"timeout", "timeout_done"} THEN RcTimeout
    ELSE IF o = "ok" /\ res.ok THEN 0
    ELSE RcFail

\* repository after the command: a command that fails leaves it as git left it
\* (a conflicting merge stops in the merging state), a killed one unchanged
After(m, res, o) == IF o = "ok" THEN res.r ELSE repo[m]

\* the remote after a remote command: a timed-out command may have been
\* carried out by the server before the client was killed
RemoteAfter(res, o) == IF o \in {"ok", "timeout_done"} THEN res.rem ELSE remote

Entry(cmd, arg, rc) == [cmd |-> cmd, arg |-> arg, rc |-> rc]

\* one branch name for every identity
get_sync_branch_name_shared(m) == SyncPrefix \o OsUser

\* getpass / get_github_username: the identity of the machine's user
get_sync_branch_name(m) == SyncPrefix \o cfg.user[m]

\* the comparison of the return codes turned around
has_changes_inverted(r) == GitDiffCached(r) = 0 \/ GitDiff(r) = 0

\* has_changes
has_changes(r) ==
    LET has_staged_changes   == GitDiffCached(r) # 0
        has_unstaged_changes == GitDiff(r) # 0
    IN  has_staged_changes \/ has_unstaged_changes

Goto(m, label) == [proc[m] EXCEPT !.pc = label]
ExitWith(m, code) == [proc[m] EXCEPT !.pc = "exit", !.exit = code]

\* started lists the runs in the order they began
Runs(m) == Cardinality({i \in 1..Len(started) : started[i].machine = m})

CanStart(m, script) ==
    /\ ~Running(m)
    /\ script \in cfg.scripts[m]
    /\ Runs(m) < MaxRuns
    /\ ~repo[m].merging
    /\ cfg.concurrent \/ \A o \in Machines : ~Running(o)

(***************************************************************************)
(* put-sync.py main                                                        *)
(***************************************************************************)
\* lines 166-195: repository check, current branch, has_changes, branch name
PutStart(m) ==
    /\ CanStart(m, "put")
    /\ \E found \in (IF cfg.faults THEN {"branch", "none", "norepo"} ELSE {"branch"}) :
        LET sync_branch == get_sync_branch_name(m)
            p0 == [IdleProc EXCEPT !.script = "put",
                                   !.current_branch = repo[m].head,
                                   !.sync_branch = sync_branch]
        IN  proc' = [proc EXCEPT ![m] =
                IF found # "branch" THEN [p0 EXCEPT !.pc = "exit", !.exit = 1,
                                                    !.current_branch = NoName,
                                                    !.sync_branch = NoName]
                ELSE IF ~has_changes(repo[m])
                     THEN [p0 EXCEPT !.pc = "exit", !.exit = 0, !.sync_branch = NoName]
                ELSE IF ~validate_branch_name(sync_branch)
                     THEN [p0 EXCEPT !.pc = "exit", !.exit = 1]
                ELSE [p0 EXCEPT !.pc = "put_add", !.validated = {sync_branch}]]
    /\ log' = [log EXCEPT ![m] = <<>>]
    /\ pre' = [pre EXCEPT ![m] = [repo |-> repo[m], remote |-> remote]]
    /\ started' = Append(started, [machine |-> m, script |-> proc'[m].script])
    /\ UNCHANGED <<remote, repo, clock, cfg, call>>

\* continue at `label`, or leave the script when it is an exit label
Land(m, label, rc) ==
    IF label = "exit0" THEN [proc[m] EXCEPT !.pc = "exit", !.exit = 0, !.rc = rc, !.attempt = 0]
    ELSE IF label = "exit1" THEN [proc[m] EXCEPT !.pc = "exit", !.exit = 1, !.rc = rc, !.attempt = 0]
    ELSE [proc[m] EXCEPT !.pc = label, !.rc = rc, !.attempt = 0]

\* a local command at label `at`: run it, log it, continue at `next` when it
\* returned 0 and at `onfail` otherwise
LocalStep(m, at, cmd, arg, res, next, onfail) ==
    /\ proc[m].pc = at
    /\ \E o \in Outcomes :
        LET rc == Rc(res, o)
        IN  /\ repo' = [repo EXCEPT ![m] = After(m, res, o)]
            /\ log' = [log EXCEPT ![m] = Append(@, Entry(cmd, arg, rc))]
            /\ proc' = [proc EXCEPT ![m] = Land(m, IF rc = 0 THEN next ELSE onfail, rc)]
    /\ UNCHANGED <<remote, pre, clock, started, cfg, call>>

\* every failure taken for a timeout
IsTimeoutOrError(returncode) == returncode # 0

\* elif returncode == -2: the attempt timed out
IsTimeout(returncode) == returncode = RcTimeout

\* one attempt of a retrying remote command (push_branch, fetch_updates,
\* delete_remote_branch): `for attempt in range(3)`; 0 returns, -2 sleeps
\* 2 ** attempt and goes round the loop, anything else breaks
RetryStep(m, at, cmd, arg, res, next, onfail) ==
    /\ proc[m].pc = at
    /\ proc[m].attempt < MaxAttempts
    /\ \E o \in RemoteOutcomes :
        LET rc      == Rc(res, o)
            attempt == proc[m].attempt
        IN  /\ repo' = [repo EXCEPT ![m] = After(m, res, o)]
            /\ remote' = RemoteAfter(res, o)
            /\ log' = [log EXCEPT ![m] =
                  IF IsTimeout(rc)
                  THEN Append(Append(@, Entry(cmd, arg, rc)), Entry("sleep", NoName, 2 ^ attempt))
                  ELSE Append(@, Entry(cmd, arg, rc))]
            /\ proc' = [proc EXCEPT ![m] =
                  IF rc = 0 THEN Land(m, next, rc)
                  ELSE IF IsTimeout(rc) /\ attempt + 1 < MaxAttempts
                       THEN [proc[m] EXCEPT !.attempt = attempt + 1, !.rc = rc]
                  ELSE Land(m, onfail, rc)]
    /\ UNCHANGED <<pre, clock, started, cfg, call>>

\* staging that goes straight on to the remote deletion
PutAddSkipsCommit(m) ==
    LocalStep(m, "put_add", "add", NoName, GitAddAll(repo[m]), "put_delete_remote", "exit1")

\* line 199: add_all_changes
PutAdd(m) ==
    LocalStep(m, "put_add", "add", NoName, GitAddAll(repo[m]), "put_commit", "exit1")

\* line 207: commit_changes
PutCommit(m) ==
    LocalStep(m, "put_commit", "commit", NoName, GitCommit(repo[m]),
              "put_delete_remote", "exit1")

\* line 215: delete_remote_branch(sync_branch), result ignored
PutDeleteRemote(m) ==
    RetryStep(m, "put_delete_remote", "push_delete", proc[m].sync_branch,
              GitPushDelete(repo[m], remote, proc[m].sync_branch),
              "put_create", "put_create")

\* line 219: create_and_switch_branch(sync_branch)
PutCreate(m) ==
    LocalStep(m, "put_create", "switch_c", proc[m].sync_branch,
              GitSwitchCreate(repo[m], proc[m].sync_branch),
              "put_push", "put_cleanup_switch")

\* line 228: push_branch(sync_branch)
PutPush(m) ==
    RetryStep(m, "put_push", "push", proc[m].sync_branch,
              GitPush(repo[m], remote, proc[m].sync_branch),
              "put_switch", "put_cleanup_switch")

\* line 241: switch_branch(current_branch)
PutSwitch(m) ==
    LocalStep(m, "put_switch", "switch", proc[m].current_branch,
              GitSwitch(repo[m], proc[m].current_branch),
              "put_reset", "put_fail_delete")

\* line 245: delete_local_branch(sync_branch), then sys.exit(1)
PutFailDelete(m) ==
    LocalStep(m, "put_fail_delete", "branch_D", proc[m].sync_branch,
              GitBranchDelete(repo[m], proc[m].sync_branch), "exit1", "exit1")

\* line 250: reset_last_commit(), a failure is a warning
PutReset(m) ==
    LocalStep(m, "put_reset", "reset_soft", NoName, GitResetSoft(repo[m]),
              "put_delete", "put_delete")

\* line 257: delete_local_branch(sync_branch), a failure is a warning
PutDelete(m) ==
    LocalStep(m, "put_delete", "branch_D", proc[m].sync_branch,
              GitBranchDelete(repo[m], proc[m].sync_branch), "exit0", "exit0")

\* cleanup_on_failure, line 159: switch_branch(current_branch)
PutCleanupSwitch(m) ==
    LocalStep(m, "put_cleanup_switch", "switch", proc[m].current_branch,
              GitSwitch(repo[m], proc[m].current_branch),
              "put_cleanup_reset", "put_cleanup_reset")

\* cleanup_on_failure, line 161: reset_last_commit()
PutCleanupReset(m) ==
    LocalStep(m, "put_cleanup_reset", "reset_soft", NoName, GitResetSoft(repo[m]),
              "put_cleanup_delete", "put_cleanup_delete")

\* cleanup_on_failure, line 163: delete_local_branch(sync_branch); main then
\* exits with status 1
PutCleanupDelete(m) ==
    LocalStep(m, "put_cleanup_delete", "branch_D", proc[m].sync_branch,
              GitBranchDelete(repo[m], proc[m].sync_branch), "exit1", "exit1")

PutStep(m) ==
    \/ PutStart(m)
    \/ PutAdd(m)
    \/ PutCommit(m)
    \/ PutDeleteRemote(m)
    \/ PutCreate(m)
    \/ PutPush(m)
    \/ PutSwitch(m)
    \/ PutFailDelete(m)
    \/ PutReset(m)
    \/ PutDelete(m)
    \/ PutCleanupSwitch(m)
    \/ PutCleanupReset(m)
    \/ PutCleanupDelete(m)

(***************************************************************************)
(* get-sync.py                                                             *)
(***************************************************************************)
\* get_previous_backup_branch: sorted(backup_branches)[-1], or None
get_previous_backup_branch(r) ==
    LET backup_branches == Sorted({b \in DOMAIN r.br : StartsWith(b, BackupPrefix)})
    IN  IF backup_branches = <<>> THEN NoName
        ELSE backup_branches[Len(backup_branches)]

\* every name taken to exist on the remote
remote_branch_exists_always(r, branch_name) == TRUE

\* remote_branch_exists
remote_branch_exists(r, branch_name) == GitRevParseVerify(r, branch_name) = 0

\* list_remote_sync_branches: git branch -r, filtered by the prefix
list_remote_sync_branches(r) ==
    Sorted({b \in DOMAIN r.rt : StartsWith(b, SyncPrefix)})

RECURSIVE Without(_, _)
Without(seq, x) ==
    IF seq = <<>> THEN <<>>
    ELSE IF Head(seq) = x THEN Tail(seq)
    ELSE <<Head(seq)>> \o Without(Tail(seq), x)

\* the entries of the prompt without the default branch put in front
PromptEntriesListed(r, default_branch) == list_remote_sync_branches(r)

\* select_sync_branch, lines 209-215: the entries of the prompt
PromptEntries(r, default_branch) ==
    <<default_branch>> \o Without(list_remote_sync_branches(r), default_branch)

\* int(choice): -1 stands for ValueError
ParseInt(choice) ==
    IF Len(choice) = 1 /\ \E d \in 1..Len(Digits) : Digits[d] = choice[1]
    THEN (CHOOSE d \in 1..Len(Digits) : Digits[d] = choice[1]) - 1
    ELSE -1

\* what the user may type at the prompt
Inputs == {<<>>, <<"1">>, <<"2">>, <<"3">>, <<"4">>, <<"x">>}

\* every transport branch taken for the default one
is_default_branch_always(branch_name, default_branch) == TRUE

is_default_branch(branch_name, default_branch) == branch_name = default_branch

\* create_backup_branch: the name for the second `ts`
BackupName(ts) == BackupPrefix \o Strftime(ts)

\* git switch reports "Switched to a new branch" on standard error: the
\* standard output of create_backup_branch is empty
SwitchStdout(n) == <<>>

\* line 324: stdout.strip().split()[-1] if "Switched to a new branch" in stdout
ExtractBackup(stdout) ==
    IF \E i \in 1..(Len(stdout) - 1) : stdout[i] = "Switched to a new branch"
    THEN stdout[Len(stdout)]
    ELSE NoName

\* lines 245-267: repository check, current branch, default branch name
GetStart(m) ==
    /\ CanStart(m, "get")
    /\ \E found \in (IF cfg.faults THEN {"branch", "none", "norepo"} ELSE {"branch"}) :
        LET default_sync_branch == get_sync_branch_name(m)
            p0 == [IdleProc EXCEPT !.script = "get",
                                   !.current_branch = repo[m].head,
                                   !.default_sync_branch = default_sync_branch]
        IN  proc' = [proc EXCEPT ![m] =
                IF found # "branch" THEN [p0 EXCEPT !.pc = "exit", !.exit = 1,
                                                    !.current_branch = NoName,
                                                    !.default_sync_branch = NoName]
                ELSE IF ~validate_branch_name(default_sync_branch)
                     THEN [p0 EXCEPT !.pc = "exit", !.exit = 1]
                ELSE [p0 EXCEPT !.pc = "get_fetch", !.validated = {default_sync_branch}]]
    /\ log' = [log EXCEPT ![m] = <<>>]
    /\ pre' = [pre EXCEPT ![m] = [repo |-> repo[m], remote |-> remote]]
    /\ started' = Append(started, [machine |-> m, script |-> proc'[m].script])
    /\ UNCHANGED <<remote, repo, clock, cfg, call>>

\* the result of fetch_updates() not looked at
GetFetchIgnored(m) ==
    RetryStep(m, "get_fetch", "fetch", NoName, GitFetch(repo[m], remote),
              "get_resolve", "get_resolve")

\* line 271: fetch_updates()
GetFetch(m) ==
    RetryStep(m, "get_fetch", "fetch", NoName, GitFetch(repo[m], remote),
              "get_resolve", "exit1")

\* lines 280-301, up to the prompt of select_sync_branch
GetResolve(m) ==
    /\ proc[m].pc = "get_resolve"
    /\ LET default == proc[m].default_sync_branch
       IN  proc' = [proc EXCEPT ![m] =
              IF remote_branch_exists(repo[m], default)
              THEN [proc[m] EXCEPT !.pc = "get_backup", !.sync_branch = default]
              ELSE IF list_remote_sync_branches(repo[m]) = <<>>
                   \* select_sync_branch returns the default, which does not exist
                   THEN [proc[m] EXCEPT !.pc = "exit", !.exit = 1, !.sync_branch = default]
              ELSE [proc[m] EXCEPT !.pc = "get_prompt", !.prompted = TRUE]]
    /\ UNCHANGED <<remote, repo, log, pre, clock, started, cfg, call>>

\* select_sync_branch, lines 226-239, and main, lines 291-299
GetPrompt(m) ==
    /\ proc[m].pc = "get_prompt"
    /\ \E choice \in Inputs :
        LET default  == proc[m].default_sync_branch
            entries  == PromptEntries(repo[m], default)
            n        == ParseInt(choice)
            chosen   == IF choice = <<>> THEN default ELSE entries[n]
        IN  proc' = [proc EXCEPT ![m] =
              IF choice # <<>> /\ n = Len(entries) + 1
              THEN [proc[m] EXCEPT !.pc = "exit", !.exit = 0, !.choice = <<choice>>]
              ELSE IF choice # <<>> /\ ~(1 <= n /\ n <= Len(entries))
              THEN [proc[m] EXCEPT !.choice = <<choice>>]       \* asks again
              ELSE IF ~remote_branch_exists(repo[m], chosen)
              THEN [proc[m] EXCEPT !.pc = "exit", !.exit = 1, !.sync_branch = chosen,
                                   !.choice = <<choice>>]
              ELSE [proc[m] EXCEPT !.pc = "get_backup", !.sync_branch = chosen,
                                   !.choice = <<choice>>]]
    /\ UNCHANGED <<remote, repo, log, pre, clock, started, cfg, call>>

\* lines 304-313: has_changes, and the deletion of the previous backup branch
GetBackupRotate(m) ==
    /\ proc[m].pc = "get_backup"
    /\ LET local_has_changes == has_changes(repo[m])
           previous_backup   == get_previous_backup_branch(repo[m])
           res               == GitBranchDelete(repo[m], previous_backup)
       IN  IF ~local_has_changes
           THEN /\ proc' = [proc EXCEPT ![m] = Goto(m, "get_checkout")]
                /\ UNCHANGED <<repo, log>>
           ELSE IF previous_backup = NoName
           THEN /\ proc' = [proc EXCEPT ![m] = Goto(m, "get_backup_create")]
                /\ UNCHANGED <<repo, log>>
           ELSE \E o \in Outcomes :
                /\ repo' = [repo EXCEPT ![m] = After(m, res, o)]
                /\ log' = [log EXCEPT ![m] =
                              Append(@, Entry("branch_D", previous_backup, Rc(res, o)))]
                /\ proc' = [proc EXCEPT ![m] = Land(m, "get_backup_create", Rc(res, o))]
    /\ UNCHANGED <<remote, pre, clock, started, cfg, call>>

\* lines 318-321: a failure to create the backup branch ends the run
\* the return code of create_backup_branch() not looked at
OnBackupFailureIgnored == "get_backup_switch"

OnBackupFailure == "exit1"

\* lines 317-326: create_backup_branch() at the current second, which is the
\* second of the latest backup or a later one
GetBackupCreate(m) ==
    /\ proc[m].pc = "get_backup_create"
    /\ \E ts \in {clock, clock + 1}, o \in Outcomes :
        LET name == BackupName(ts)
            res  == GitSwitchCreate(repo[m], name)
            rc   == Rc(res, o)
        IN  /\ clock' = ts
            /\ repo' = [repo EXCEPT ![m] = After(m, res, o)]
            /\ log' = [log EXCEPT ![m] = Append(@, Entry("switch_c", name, rc))]
            /\ proc' = [proc EXCEPT ![m] =
                  IF rc # 0 THEN Land(m, OnBackupFailure, rc)
                  ELSE [Land(m, "get_backup_switch", rc) EXCEPT
                           !.backup_branch = ExtractBackup(SwitchStdout(name)),
                           !.made_backup = name]]
    /\ UNCHANGED <<remote, pre, started, cfg, call>>

\* line 329: switch_branch(current_branch)
GetBackupSwitch(m) ==
    LocalStep(m, "get_backup_switch", "switch", proc[m].current_branch,
              GitSwitch(repo[m], proc[m].current_branch), "get_checkout", "exit1")

\* line 338: checkout_branch(sync_branch)
GetCheckout(m) ==
    LocalStep(m, "get_checkout", "switch_track", proc[m].sync_branch,
              GitSwitchTrack(repo[m], proc[m].sync_branch), "get_switch", "exit1")

\* the switch after the checkout going to the backup branch of the run
GetSwitchToBackup(m) ==
    LET target == IF proc[m].made_backup # NoName THEN proc[m].made_backup
                  ELSE proc[m].current_branch
    IN  LocalStep(m, "get_switch", "switch", target,
                  GitSwitch(repo[m], target), "get_merge", "exit1")

\* line 346: switch_branch(current_branch)
GetSwitch(m) ==
    LocalStep(m, "get_switch", "switch", proc[m].current_branch,
              GitSwitch(repo[m], proc[m].current_branch), "get_merge", "exit1")

\* lines 354-358: a failed merge ends the run
\* the return code of merge_branch() not looked at
OnMergeFailureIgnored == "get_reset"

OnMergeFailure == "exit1"

\* line 353: merge_branch(sync_branch)
GetMerge(m) ==
    LocalStep(m, "get_merge", "merge", proc[m].sync_branch,
              GitMerge(repo[m], proc[m].sync_branch), "get_reset", OnMergeFailure)

\* line 362: reset_last_commit()
\* the return code of reset_last_commit() not looked at
OnResetFailureIgnored == "get_delete_local"

\* lines 363-366: a failure of the soft reset ends the run
OnResetFailure == "exit1"

GetReset(m) ==
    LocalStep(m, "get_reset", "reset_soft", NoName, GitResetSoft(repo[m]),
              "get_delete_local", OnResetFailure)

\* a failed deletion of the local transport branch ends the run
GetDeleteLocalFatal(m) ==
    LET after == IF is_default_branch(proc[m].sync_branch, proc[m].default_sync_branch)
                 THEN "get_delete_remote" ELSE "exit0"
    IN  LocalStep(m, "get_delete_local", "branch_D", proc[m].sync_branch,
                  GitBranchDelete(repo[m], proc[m].sync_branch), after, "exit1")

\* lines 370-376: delete_local_branch(sync_branch), a failure is a warning;
\* then is_default_branch decides whether the remote branch is deleted
GetDeleteLocal(m) ==
    LET after == IF is_default_branch(proc[m].sync_branch, proc[m].default_sync_branch)
                 THEN "get_delete_remote" ELSE "exit0"
    IN  LocalStep(m, "get_delete_local", "branch_D", proc[m].sync_branch,
                  GitBranchDelete(repo[m], proc[m].sync_branch), after, after)

\* line 378: delete_remote_branch(sync_branch), a failure is a warning
GetDeleteRemote(m) ==
    RetryStep(m, "get_delete_remote", "push_delete", proc[m].sync_branch,
              GitPushDelete(repo[m], remote, proc[m].sync_branch), "exit0", "exit0")

GetStep(m) ==
    \/ GetStart(m)
    \/ GetFetch(m)
    \/ GetResolve(m)
    \/ GetPrompt(m)
    \/ GetBackupRotate(m)
    \/ GetBackupCreate(m)
    \/ GetBackupSwitch(m)
    \/ GetCheckout(m)
    \/ GetSwitch(m)
    \/ GetMerge(m)
    \/ GetReset(m)
    \/ GetDeleteLocal(m)
    \/ GetDeleteRemote(m)

\* the user gives up a merge that stopped on a conflict (git merge --abort)
\* before running a script again
MergeAbort(m) ==
    /\ ~Running(m)
    /\ repo[m].merging
    /\ repo' = [repo EXCEPT ![m].merging = FALSE]
    /\ UNCHANGED <<remote, proc, log, pre, clock, started, cfg, call>>

(***************************************************************************)
(* Initial states.  Every repository is a clone of one history: the root   *)
(* commit C0.                                                              *)
(***************************************************************************)
C0 == MkCommit(MkTree(1, 0), <<>>)

UserA   == <<"a">>
UserB   == <<"b">>
UserBad == <<"a", " ", "b">>

\* a transport commit as PutCommit makes it: tree t on top of commit c
Transport(t, c) == MkCommit(t, <<c>>)

Clone(c, idx, wt) ==
    [head |-> Main, br |-> SetRef(NoRefs, Main, c), rt |-> SetRef(NoRefs, Main, c),
     idx |-> idx, wt |-> wt, merging |-> FALSE]

CleanClone(c) == Clone(c, c.tree, c.tree)

\* index and working tree of a clone at commit c: changes that are all
\* unstaged, all staged, or staged and undone in the working tree
WorkStates(c) ==
    {w \in Tree \X Tree : w[1] = c.tree \/ w[1] = w[2] \/ w[2] = c.tree}

\* no function is called on its own
NoCall == [fn |-> "none"]

NoBehaviour ==
    /\ call = NoCall
    /\ proc = [m \in Machines |-> IdleProc]
    /\ log = [m \in Machines |-> <<>>]
    /\ pre = [m \in Machines |-> [repo |-> repo[m], remote |-> remote]]
    /\ started = <<>>
    /\ clock = 0

\* machine A publishes, with every outcome of every command
InitPut ==
    /\ remote \in { SetRef(NoRefs, Main, C0),
                    SetRef(SetRef(NoRefs, Main, C0), SyncPrefix \o UserA,
                           Transport(MkTree(2, 0), C0)) }
    /\ \E w \in WorkStates(C0) :
          repo = [m \in Machines |-> IF m = "A" THEN Clone(C0, w[1], w[2]) ELSE CleanClone(C0)]
    /\ \E u \in {UserA, UserBad} :
          cfg = [faults |-> TRUE, concurrent |-> FALSE,
                 user |-> [m \in Machines |-> IF m = "A" THEN u ELSE UserA],
                 scripts |-> [m \in Machines |-> IF m = "A" THEN {"put"} ELSE {}]]
    /\ NoBehaviour

NextPut == \E m \in Machines : PutStep(m)

SpecPut == InitPut /\ [][NextPut]_vars

\* a commit made on machine B alone, not pushed
L1 == MkCommit(MkTree(0, 1), <<C0>>)

SyncA == SyncPrefix \o UserA
SyncB == SyncPrefix \o UserB

\* what earlier Publisher runs from other machines may have left on the remote
Published ==
    LET base == SetRef(NoRefs, Main, C0)
    IN  { base,
          SetRef(base, SyncA, Transport(MkTree(2, 0), C0)),
          SetRef(base, SyncA, Transport(MkTree(2, 1), C0)),
          SetRef(base, SyncB, Transport(MkTree(1, 1), C0)),
          SetRef(SetRef(base, SyncA, Transport(MkTree(2, 0), C0)),
                 SyncB, Transport(MkTree(1, 1), C0)) }

\* machine B consumes, with every outcome of every command
InitGet ==
    /\ remote \in Published
    /\ \E c \in {C0, L1}, old \in BOOLEAN :
        \E w \in WorkStates(c) :
          repo = [m \in Machines |->
                    IF m = "B"
                    THEN [Clone(c, w[1], w[2]) EXCEPT
                             !.br = IF old THEN SetRef(@, BackupName(0), c) ELSE @]
                    ELSE CleanClone(C0)]
    /\ \E u \in {UserA, UserB, UserBad} :
          cfg = [faults |-> TRUE, concurrent |-> FALSE,
                 user |-> [m \in Machines |-> IF m = "B" THEN u ELSE UserA],
                 scripts |-> [m \in Machines |-> IF m = "B" THEN {"get"} ELSE {}]]
    /\ NoBehaviour

NextGet == \E m \in Machines : GetStep(m) \/ MergeAbort(m)

SpecGet == InitGet /\ [][NextGet]_vars

\* either of the two: one machine runs one script, with every outcome of
\* every command
InitRuns == InitPut \/ InitGet

NextRuns == \E m \in Machines : PutStep(m) \/ GetStep(m) \/ MergeAbort(m)

SpecRuns == InitRuns /\ [][NextRuns]_vars

\* machine A publishes and machine B consumes, one run at a time, and git
\* does what git does
Init ==
    /\ remote = SetRef(NoRefs, Main, C0)
    /\ \E a \in WorkStates(C0), b \in WorkStates(C0) :
          repo = [m \in Machines |->
                    IF m = "A" THEN Clone(C0, a[1], a[2]) ELSE Clone(C0, b[1], b[2])]
    /\ \E u \in {UserA, UserB} :
          cfg = [faults |-> FALSE, concurrent |-> FALSE,
                 user |-> [m \in Machines |-> IF m = "B" THEN u ELSE UserA],
                 scripts |-> [m \in Machines |-> IF m = "A" THEN {"put"} ELSE {"get"}]]
    /\ NoBehaviour

\* the steps of the scripts that are taken when no command fails
Next ==
    \E m \in Machines :
        \/ PutStart(m)
        \/ PutAdd(m)
        \/ PutCommit(m)
        \/ PutDeleteRemote(m)
        \/ PutCreate(m)
        \/ PutPush(m)
        \/ PutSwitch(m)
        \/ PutReset(m)
        \/ PutDelete(m)
        \/ GetStep(m)

Spec == Init /\ [][Next]_vars

\* machines A and B both publish, at the same time, under one identity or
\* under two, and git does what git does
InitRace ==
    /\ remote = SetRef(NoRefs, Main, C0)
    /\ \E b \in {MkTree(0, 0), MkTree(2, 0)} :
          repo = [m \in Machines |->
                    IF m = "A" THEN Clone(C0, C0.tree, MkTree(2, 0))
                    ELSE Clone(C0, C0.tree, b)]
    /\ \E u \in {UserA, UserB} :
          cfg = [faults |-> FALSE, concurrent |-> TRUE,
                 user |-> [m \in Machines |-> IF m = "B" THEN u ELSE UserA],
                 scripts |-> [m \in Machines |-> {"put"}]]
    /\ NoBehaviour

\* the Publisher's steps that are taken when git does what git does: a push
\* is rejected when the remote branch holds a commit the pushed one is not
\* a descendant of
NextRace ==
    \E m \in Machines :
        \/ PutStart(m)
        \/ PutAdd(m)
        \/ PutCommit(m)
        \/ PutDeleteRemote(m)
        \/ PutCreate(m)
        \/ PutPush(m)
        \/ PutSwitch(m)
        \/ PutReset(m)
        \/ PutDelete(m)
        \/ PutCleanupSwitch(m)
        \/ PutCleanupReset(m)
        \/ PutCleanupDelete(m)

SpecRace == InitRace /\ [][NextRace]_vars

\* machine B consumes sync-of-a in each position its branch can have to the
\* transport commit: at the transport commit's parent, behind it, diverged
\* from it (with and without a conflict), at the transport commit, beyond it
M1 == MkCommit(MkTree(1, 1), <<C0>>)
T0 == Transport(MkTree(2, 0), C0)
N0 == MkCommit(MkTree(2, 1), <<T0>>)

Shapes ==
    { [c |-> C0, main |-> C0, t |-> T0],
      [c |-> C0, main |-> M1, t |-> Transport(MkTree(2, 1), M1)],
      [c |-> L1, main |-> C0, t |-> Transport(MkTree(1, 1), C0)],
      [c |-> L1, main |-> C0, t |-> T0],
      [c |-> T0, main |-> C0, t |-> T0],
      [c |-> N0, main |-> C0, t |-> T0] }

InitShapes ==
    /\ \E sh \in Shapes, old \in BOOLEAN :
        \E w \in WorkStates(sh.c) :
          /\ remote = SetRef(SetRef(NoRefs, Main, sh.main), SyncA, sh.t)
          /\ repo = [m \in Machines |->
                    IF m = "B"
                    THEN [Clone(sh.c, w[1], w[2]) EXCEPT
                             !.br = IF old THEN SetRef(@, BackupName(0), sh.c) ELSE @,
                             !.rt = SetRef(NoRefs, Main, C0)]
                    ELSE CleanClone(C0)]
    /\ \E u \in {UserA, UserB} :
          cfg = [faults |-> FALSE, concurrent |-> FALSE,
                 user |-> [m \in Machines |-> IF m = "B" THEN u ELSE UserA],
                 scripts |-> [m \in Machines |-> IF m = "B" THEN {"get"} ELSE {}]]
    /\ NoBehaviour

SpecShapes == InitShapes /\ [][NextGet]_vars

(***************************************************************************)
(* validate_branch_name on its own: called once on a candidate name, every *)
(* string of at most MaxLen characters of Alphabet and the names the       *)
(* scripts and git use.                                                    *)
(***************************************************************************)
Alphabet == {"a", ".", "/", "@", "{", "~", "^", ":", "?", "*", "[", "\\", "\n"}

SyncOfAlice == SyncPrefix \o <<"a", "l", "i", "c", "e">>

Candidates ==
    UNION {[1..n -> Alphabet] : n \in 0..MaxLen} \cup Reserved \cup {SyncOfAlice, SyncA, Main}

\* the rest of the state when a function is called on its own
NoRuns ==
    /\ remote = SetRef(NoRefs, Main, C0)
    /\ repo = [m \in Machines |-> CleanClone(C0)]
    /\ cfg = [faults |-> FALSE, concurrent |-> FALSE,
              user |-> [m \in Machines |-> UserA],
              scripts |-> [m \in Machines |-> {}]]
    /\ proc = [m \in Machines |-> IdleProc]
    /\ log = [m \in Machines |-> <<>>]
    /\ pre = [m \in Machines |-> [repo |-> repo[m], remote |-> remote]]
    /\ started = <<>>
    /\ clock = 0

InitValidate ==
    /\ \E s \in Candidates :
          call = [fn |-> "validate_branch_name", branch_name |-> s,
                  done |-> FALSE, result |-> FALSE]
    /\ NoRuns

Validate ==
    /\ call.fn = "validate_branch_name" /\ ~call.done
    /\ call' = [call EXCEPT !.done = TRUE,
                            !.result = validate_branch_name(call.branch_name)]
    /\ UNCHANGED <<remote, repo, proc, log, pre, clock, started, cfg>>

SpecValidate == InitValidate /\ [][Validate]_vars

(***************************************************************************)
(* get_github_username and get_sync_branch_name on their own.  The remote  *)
(* URL is a string of characters; re.search finds the leftmost place where *)
(* the pattern's literal text is followed by one or more characters other  *)
(* than / and then a /, and the group is those characters.                 *)
(***************************************************************************)
GitAt     == <<"g", "i", "t", "@">>
SshScheme == <<"s", "s", "h", ":", "/", "/">> \o GitAt
Https     == <<"h", "t", "t", "p", "s", ":", "/", "/">>
Http      == <<"h", "t", "t", "p", ":", "/", "/">>
GithubCom == <<"g", "i", "t", "h", "u", "b", ".", "c", "o", "m">>
GitlabCom == <<"g", "i", "t", "l", "a", "b", ".", "c", "o", "m">>

\* https_pattern written for http
https_pattern_http == Http \o GithubCom \o <<"/">>

\* the literal text of the three patterns
ssh_pattern   == GitAt \o GithubCom \o <<":">>
ssh_pattern2  == SshScheme \o GithubCom \o <<"/">>
https_pattern == Https \o GithubCom \o <<"/">>

\* the end of the group ([^/]+)/ that starts at position b of s, 0 if none
GroupEnd(s, b) ==
    LET slashes == {e \in b..Len(s) : s[e] = "/"}
    IN  IF slashes = {} THEN 0
        ELSE LET e == CHOOSE x \in slashes : \A y \in slashes : x <= y
             IN  IF e > b THEN e - 1 ELSE 0

\* re.search(literal ([^/]+)/, s): the group of the leftmost match, or <<>>
Search(literal, s) ==
    LET n    == Len(literal)
        hits == {p \in 1..(Len(s) - n + 1) :
                    /\ SubSeq(s, p, p + n - 1) = literal
                    /\ GroupEnd(s, p + n) # 0}
    IN  IF hits = {} THEN <<>>
        ELSE LET p == CHOOSE x \in hits : \A y \in hits : x <= y
             IN  SubSeq(s, p + n, GroupEnd(s, p + n))

\* get_github_username: the group, or <<>> for the exception
get_github_username(returncode, remote_url) ==
    LET ssh_match   == Search(ssh_pattern, remote_url)
        ssh_match2  == Search(ssh_pattern2, remote_url)
        https_match == Search(https_pattern, remote_url)
    IN  IF returncode # 0 THEN <<>>
        ELSE IF ssh_match # <<>> THEN ssh_match
        ELSE IF ssh_match2 # <<>> THEN ssh_match2
        ELSE IF https_match # <<>> THEN https_match
        ELSE <<>>

\* get_sync_branch_name: the branch name and whether the warning was printed
sync_branch_of(returncode, remote_url, os_user) ==
    LET username == get_github_username(returncode, remote_url)
    IN  IF username = <<>>
        THEN [branch |-> SyncPrefix \o os_user, warned |-> TRUE]
        ELSE [branch |-> SyncPrefix \o username, warned |-> FALSE]

\* remote URLs: scheme, host, separator, owner and the rest
Schemes == {GitAt, SshScheme, Https, Http}
Hosts   == {GithubCom, GitlabCom}
Seps    == {<<":">>, <<"/">>}
Owners  == {<<"o">>, <<"a", "l">>}
Rests   == {<<"/", "r", ".", "g", "i", "t">>, <<"/", "r">>, <<>>}

Url(c) == c.scheme \o c.host \o c.sep \o c.owner \o c.rest

InitIdentity ==
    /\ \E sc \in Schemes, h \in Hosts, sp \in Seps, o \in Owners, r \in Rests,
          rc \in {0, RcFail} :
          call = [fn |-> "get_sync_branch_name",
                  scheme |-> sc, host |-> h, sep |-> sp, owner |-> o, rest |-> r,
                  returncode |-> rc, os_user |-> OsUser,
                  done |-> FALSE, branch |-> NoName, warned |-> FALSE]
    /\ NoRuns

Resolve ==
    /\ call.fn = "get_sync_branch_name" /\ ~call.done
    /\ LET res == sync_branch_of(call.returncode, Url(call), call.os_user)
       IN  call' = [call EXCEPT !.done = TRUE, !.branch = res.branch,
                                !.warned = res.warned]
    /\ UNCHANGED <<remote, repo, proc, log, pre, clock, started, cfg>>

SpecIdentity == InitIdentity /\ [][Resolve]_vars

(***************************************************************************)
(* Vocabulary of the properties.                                           *)
(***************************************************************************)
Exited(m, script) == proc[m].script = script /\ proc[m].pc = "exit"

Issued(m, cmd) == \E i \in 1..Len(log[m]) : log[m][i].cmd = cmd

Succeeded(m, cmd) == \E i \in 1..Len(log[m]) : log[m][i].cmd = cmd /\ log[m][i].rc = 0

Failed(m, cmd) == \E i \in 1..Len(log[m]) : log[m][i].cmd = cmd /\ log[m][i].rc # 0

Backups(r) == {b \in DOMAIN r.br : StartsWith(b, BackupPrefix)}

Clean(r) == r.idx = HeadCommit(r).tree /\ r.wt = HeadCommit(r).tree

\* the tip of the branch the run started on
StartTip(m) == HeadCommit(pre[m].repo)

OnStartBranch(m) ==
    /\ repo[m].head = pre[m].repo.head
    /\ HeadCommit(repo[m]) = StartTip(m)

(***************************************************************************)
(* C1.  A Publisher run that found changes and exits with status 0 ends on *)
(* the branch it started on, with that branch at its starting commit, the  *)
(* working tree as it was, and no local sync-of-<identity> branch,         *)
(* whatever the git commands of the run returned.                          *)
(* Stated as the claim states it; the run goes on to status 0 when the     *)
(* soft reset or the deletion of the local branch fails.                   *)
(***************************************************************************)
C1_PutSuccessRestores ==
    \A m \in Machines :
        (Exited(m, "put") /\ proc[m].exit = 0 /\ has_changes(pre[m].repo)) =>
            /\ OnStartBranch(m)
            /\ repo[m].wt = pre[m].repo.wt
            /\ proc[m].sync_branch \notin DOMAIN repo[m].br

(***************************************************************************)
(* C2.  Round trip: A and B are at the same commit, A has uncommitted      *)
(* changes and B a clean tree; after A's Publisher run and then B's        *)
(* Consumer run, with git doing what git does, B's working tree is A's,    *)
(* both branch tips are the starting commit, neither machine has a local   *)
(* sync-of-<identity> branch and the remote one is gone.                   *)
(* Stated as the claim states it; it fails when A's changes are untracked  *)
(* files only, which has_changes does not see.                             *)
(***************************************************************************)
RoundTrip ==
    /\ started = << [machine |-> "A", script |-> "put"],
                    [machine |-> "B", script |-> "get"] >>
    /\ proc["A"].pc = "exit" /\ proc["B"].pc = "exit"
    /\ ~cfg.faults
    /\ cfg.user["A"] = cfg.user["B"]
    /\ HeadCommit(pre["A"].repo) = HeadCommit(pre["B"].repo)
    /\ Clean(pre["B"].repo)

C2_RoundTrip ==
    (RoundTrip /\ pre["A"].repo.wt # StartTip("A").tree) =>
        /\ repo["B"].wt = pre["A"].repo.wt
        /\ OnStartBranch("A") /\ OnStartBranch("B")
        /\ SyncA \notin DOMAIN repo["A"].br
        /\ SyncA \notin DOMAIN repo["B"].br
        /\ SyncA \notin DOMAIN remote

(***************************************************************************)
(* C3.  A Publisher run that exits with status 1 after it created the      *)
(* transport commit ends on the branch it started on, with that branch at  *)
(* its starting commit and no local sync-of-<identity> branch.             *)
(* Stated as the claim states it; it fails when the switch back to the     *)
(* original branch fails, and when a command of the cleanup fails.         *)
(***************************************************************************)
C3_PutFailureRestores ==
    \A m \in Machines :
        (Exited(m, "put") /\ proc[m].exit = 1 /\ Succeeded(m, "commit")) =>
            /\ OnStartBranch(m)
            /\ proc[m].sync_branch \notin DOMAIN repo[m].br

(***************************************************************************)
(* C4.  A Consumer run whose transport branch is not the identity's        *)
(* default sync-of-<identity> branch issues no remote-branch deletion,     *)
(* whatever the other steps return.                                        *)
(***************************************************************************)
C4_NonDefaultKeepsRemote ==
    \A m \in Machines :
        ( /\ proc[m].script = "get"
          /\ proc[m].sync_branch # NoName
          /\ proc[m].sync_branch # proc[m].default_sync_branch ) =>
            ~Issued(m, "push_delete")

\* a run that consumed another identity's branch to the end
C4_Witness ==
    \E m \in Machines :
        /\ Exited(m, "get") /\ proc[m].exit = 0
        /\ proc[m].sync_branch # proc[m].default_sync_branch
        /\ Succeeded(m, "merge") /\ Succeeded(m, "reset_soft")
        /\ proc[m].sync_branch \in DOMAIN remote

(***************************************************************************)
(* C5.  The backup branch a Consumer run creates records the working tree  *)
(* the run found: the tree at backup_<timestamp> is that working tree, and *)
(* so is more than the commit the run started on.                          *)
(* Stated as the claim states it; git switch -c only names the current     *)
(* commit, the uncommitted changes are in no commit.                       *)
(***************************************************************************)
C5_BackupRecordsChanges ==
    \A m \in Machines :
        ( /\ Exited(m, "get")
          /\ proc[m].made_backup \in DOMAIN repo[m].br ) =>
            /\ repo[m].br[proc[m].made_backup].tree = pre[m].repo.wt
            /\ repo[m].br[proc[m].made_backup] # StartTip(m)

(***************************************************************************)
(* C6.  Backup rotation: between Consumer runs a repository that started   *)
(* with at most one backup_ branch has at most one, and after a run that   *)
(* created a backup branch it is that one, whatever the commands returned. *)
(* Stated as the claim states it; the result of deleting the previous      *)
(* backup branch is ignored.                                               *)
(***************************************************************************)
C6_BackupRotation ==
    \A m \in Machines :
        (proc[m].script = "get" /\ ~Running(m)) =>
            /\ Cardinality(Backups(repo[m])) <= 1
            /\ proc[m].made_backup # NoName => Backups(repo[m]) = {proc[m].made_backup}

(***************************************************************************)
(* C7.  When the creation of the backup branch fails, the Consumer run     *)
(* exits with status 1 at once: no local transport branch is created,      *)
(* nothing is merged or reset, no remote deletion is issued, and head,     *)
(* index and working tree are as the run found them.                       *)
(***************************************************************************)
BackupCreationFailed(m) == proc[m].script = "get" /\ Failed(m, "switch_c")

C7_BackupFailureAborts ==
    \A m \in Machines :
        BackupCreationFailed(m) =>
            /\ proc[m].pc = "exit" /\ proc[m].exit = 1
            /\ ~Issued(m, "switch_track") /\ ~Issued(m, "merge")
            /\ ~Issued(m, "reset_soft") /\ ~Issued(m, "push_delete")
            /\ proc[m].sync_branch \in DOMAIN repo[m].br
                   => proc[m].sync_branch \in DOMAIN pre[m].repo.br
            /\ OnStartBranch(m)
            /\ repo[m].idx = pre[m].repo.idx /\ repo[m].wt = pre[m].repo.wt
            /\ remote = pre[m].remote

\* the creation failed in a run that started with uncommitted changes
C7_Witness ==
    \E m \in Machines :
        /\ BackupCreationFailed(m) /\ proc[m].pc = "exit"
        /\ repo[m].wt # HeadCommit(repo[m]).tree

(***************************************************************************)
(* C8.  When the merge fails, the Consumer run exits with status 1 and     *)
(* does nothing more: no soft reset, and the local and the remote          *)
(* transport branch stay.  The original statement adds that no branch at   *)
(* all is deleted by the run; the amended one allows the previous backup   *)
(* branch, which the backup step deleted before the merge.                 *)
(***************************************************************************)
MergeFailed(m) == proc[m].script = "get" /\ Failed(m, "merge")

C8_NoBranchDeleted ==
    \A m \in Machines :
        MergeFailed(m) =>
            /\ proc[m].pc = "exit" /\ proc[m].exit = 1
            /\ ~Issued(m, "reset_soft")
            /\ proc[m].sync_branch \in DOMAIN repo[m].br
            /\ DOMAIN pre[m].repo.br \subseteq DOMAIN repo[m].br
            /\ DOMAIN pre[m].remote \subseteq DOMAIN remote

C8_MergeFailureStops ==
    \A m \in Machines :
        MergeFailed(m) =>
            /\ proc[m].pc = "exit" /\ proc[m].exit = 1
            /\ log[m][Len(log[m])].cmd = "merge"
            /\ ~Issued(m, "reset_soft") /\ ~Issued(m, "push_delete")
            /\ proc[m].sync_branch \in DOMAIN repo[m].br
            /\ DOMAIN pre[m].remote \subseteq DOMAIN remote
            /\ \A b \in DOMAIN pre[m].repo.br \ DOMAIN repo[m].br :
                  /\ StartsWith(b, BackupPrefix)
                  /\ \E i \in 1..(Len(log[m]) - 1) :
                        /\ log[m][i] = Entry("branch_D", b, 0)
                        /\ log[m][i + 1].cmd = "switch_c"

\* a merge that stopped on a conflict, in a run that rotated the backup
C8_Witness ==
    \E m \in Machines :
        /\ MergeFailed(m) /\ repo[m].merging
        /\ DOMAIN pre[m].repo.br \ DOMAIN repo[m].br # {}

(***************************************************************************)
(* C9.  A Publisher run in a repository with a clean working tree exits    *)
(* with status 0 and has done nothing: no command was issued, repository   *)
(* and remote are as the run found them; and so for every later run.       *)
(***************************************************************************)
C9_CleanPutNoOp ==
    \A m \in Machines :
        ( /\ proc[m].script = "put"
          /\ proc[m].current_branch # NoName
          /\ Clean(pre[m].repo) ) =>
            /\ proc[m].pc = "exit" /\ proc[m].exit = 0
            /\ log[m] = <<>>
            /\ repo[m] = pre[m].repo
            /\ remote = pre[m].remote

\* the second run on a clean tree
C9_Witness ==
    \E m \in Machines :
        /\ Exited(m, "put") /\ proc[m].exit = 0
        /\ Clean(pre[m].repo)
        /\ Runs(m) >= 2

(***************************************************************************)
(* C10.  A retrying remote operation (push, remote deletion, fetch) makes  *)
(* at most 3 attempts; when every attempt timed out it has made exactly 3  *)
(* and returns -2.                                                         *)
(***************************************************************************)
Attempts(m, cmd) == Cardinality({i \in 1..Len(log[m]) : log[m][i].cmd = cmd})

AllTimedOut(m, cmd) ==
    /\ Issued(m, cmd)
    /\ \A i \in 1..Len(log[m]) : log[m][i].cmd = cmd => log[m][i].rc = -2

\* the operation is over: the script is no longer in its loop
Returned(m, cmd) ==
    /\ Issued(m, cmd)
    /\ proc[m].pc \notin {"put_push", "put_delete_remote", "get_fetch", "get_delete_remote"}

\* nothing was run since the operation's last attempt and its sleep
LastRun(m, cmd) ==
    /\ Len(log[m]) >= 2
    /\ log[m][Len(log[m])].cmd = "sleep"
    /\ log[m][Len(log[m]) - 1].cmd = cmd

C10_RetryBound ==
    \A m \in Machines : \A cmd \in {"push", "push_delete", "fetch"} :
        /\ Attempts(m, cmd) <= 3
        /\ (Returned(m, cmd) /\ AllTimedOut(m, cmd)) => Attempts(m, cmd) = 3
        /\ (Returned(m, cmd) /\ AllTimedOut(m, cmd) /\ LastRun(m, cmd)) => proc[m].rc = -2

\* a push that timed out three times
C10_Witness ==
    \E m \in Machines :
        /\ Returned(m, "push") /\ AllTimedOut(m, "push")
        /\ Attempts(m, "push") = 3

(***************************************************************************)
(* C11.  A retrying remote operation whose 3 attempts all timed out has    *)
(* slept 2 seconds after the first attempt and 4 seconds after the second, *)
(* and not after the third.                                                *)
(* Stated as the claim states it; the loop sleeps 2 ** attempt with        *)
(* attempt counted from 0, after every timed-out attempt.                  *)
(***************************************************************************)
\* the seconds slept after the attempts of cmd, in order
SleepsAfter(m, cmd) ==
    LET idx == SelectSeq([i \in 1..Len(log[m]) |-> i],
                         LAMBDA i : /\ i > 1
                                    /\ log[m][i].cmd = "sleep"
                                    /\ log[m][i - 1].cmd = cmd)
    IN  [k \in 1..Len(idx) |-> log[m][idx[k]].rc]

C11_RetryDelays ==
    \A m \in Machines : \A cmd \in {"push", "push_delete", "fetch"} :
        (Returned(m, cmd) /\ AllTimedOut(m, cmd)) => SleepsAfter(m, cmd) = <<2, 4>>

(***************************************************************************)
(* C12.  In a retrying remote operation an attempt that returns a non-zero *)
(* code other than the timeout's is the last one: no attempt and no sleep  *)
(* follows it, and the operation returns that code, also when earlier      *)
(* attempts of the call timed out.                                         *)
(***************************************************************************)
\* the labels of the script at which the attempts of cmd are made
LoopOf(cmd) ==
    IF cmd = "push" THEN {"put_push"}
    ELSE IF cmd = "fetch" THEN {"get_fetch"}
    ELSE {"put_delete_remote", "get_delete_remote"}

HardFailureAt(m, i) ==
    /\ log[m][i].cmd \in {"push", "push_delete", "fetch"}
    /\ log[m][i].rc \notin {0, -2}

C12_NoRetryOnError ==
    \A m \in Machines : \A i \in 1..Len(log[m]) :
        HardFailureAt(m, i) =>
            /\ proc[m].pc \notin LoopOf(log[m][i].cmd)
            /\ i < Len(log[m]) => log[m][i + 1].cmd \notin {log[m][i].cmd, "sleep"}
            /\ i = Len(log[m]) => proc[m].rc = log[m][i].rc

\* a push that failed on the attempt after a timed-out one
C12_Witness ==
    \E m \in Machines :
        /\ Len(log[m]) >= 3
        /\ HardFailureAt(m, Len(log[m]))
        /\ log[m][Len(log[m])].cmd = "push"
        /\ log[m][Len(log[m]) - 1].cmd = "sleep"
        /\ log[m][Len(log[m]) - 2] = [log[m][Len(log[m])] EXCEPT !.rc = -2]

(***************************************************************************)
(* C13.  Exit status of a Publisher or Consumer run: every fatal failure   *)
(* (no repository or current branch, invalid branch name, a failed add,    *)
(* commit, branch creation, push, switch, soft reset, fetch, checkout or   *)
(* merge, a missing transport branch) gives status 1, and status 0 is      *)
(* given only to a run that succeeded, found nothing to sync or was        *)
(* cancelled at the prompt.                                                *)
(* Stated as the claim states it; the Publisher goes on to status 0 after  *)
(* a failed soft reset (see C1).                                           *)
(***************************************************************************)
\* the retrying operation cmd returned a non-zero code
OpFailed(m, cmd) ==
    \E i \in 1..Len(log[m]) :
        /\ log[m][i].cmd = cmd /\ log[m][i].rc # 0
        /\ \A j \in (i + 1)..Len(log[m]) : log[m][j].cmd # cmd

InvalidName(m) ==
    /\ proc[m].current_branch # NoName
    /\ ~validate_branch_name(get_sync_branch_name(m))
    /\ proc[m].script = "put" => has_changes(pre[m].repo)

MissingTransport(m) ==
    /\ proc[m].script = "get"
    /\ proc[m].sync_branch # NoName
    /\ ~Issued(m, "switch_track")
    /\ ~remote_branch_exists(repo[m], proc[m].sync_branch)

FatalFailure(m) ==
    \/ proc[m].current_branch = NoName
    \/ InvalidName(m)
    \/ MissingTransport(m)
    \/ \E cmd \in {"add", "commit", "switch_c", "switch", "reset_soft",
                   "switch_track", "merge"} : Failed(m, cmd)
    \/ OpFailed(m, "push") \/ OpFailed(m, "fetch")

NothingToSync(m) == proc[m].script = "put" /\ ~has_changes(pre[m].repo)

Cancelled(m) ==
    proc[m].script = "get" /\ proc[m].prompted /\ proc[m].sync_branch = NoName

RunSucceeded(m) ==
    \/ proc[m].script = "put" /\ Succeeded(m, "push") /\ Succeeded(m, "reset_soft")
    \/ proc[m].script = "get" /\ Succeeded(m, "merge") /\ Succeeded(m, "reset_soft")

C13_ExitStatus ==
    \A m \in Machines :
        proc[m].pc = "exit" =>
            /\ proc[m].exit \in {0, 1}
            /\ FatalFailure(m) => proc[m].exit = 1
            /\ proc[m].exit = 0 => (RunSucceeded(m) \/ NothingToSync(m) \/ Cancelled(m))

(***************************************************************************)
(* C14.  A run whose sync-of-<identity> name validate_branch_name rejects  *)
(* exits with status 1 and has changed nothing: no command was issued      *)
(* (no add, commit, branch creation or deletion, fetch, push or remote     *)
(* deletion), repository and remote are as the run found them.             *)
(***************************************************************************)
\* the run reached the validation with a name that holds a space, which no
\* branch name may
SpacedName(m) ==
    /\ proc[m].script \in {"put", "get"}
    /\ proc[m].current_branch # NoName
    /\ \E i \in 1..Len(get_sync_branch_name(m)) : get_sync_branch_name(m)[i] = " "
    /\ proc[m].script = "put" => has_changes(pre[m].repo)

C14_InvalidNameAborts ==
    \A m \in Machines :
        (SpacedName(m) \/ InvalidName(m)) =>
            /\ proc[m].pc = "exit" /\ proc[m].exit = 1
            /\ log[m] = <<>>
            /\ repo[m] = pre[m].repo
            /\ remote = pre[m].remote

\* a Consumer run under the rejected identity, in a repository with changes
\* and a transport branch to fetch
C14_Witness ==
    \E m \in Machines :
        /\ Exited(m, "get") /\ SpacedName(m)
        /\ has_changes(repo[m])
        /\ SyncA \in DOMAIN remote

(***************************************************************************)
(* C15.  validate_branch_name returns FALSE for every name that contains   *)
(* //, starts with /, ends with ., contains @{ or one of ~ ^ : ? * [ \,    *)
(* and for every reserved token; it returns TRUE for sync-of-alice.        *)
(***************************************************************************)
HasPair(s, a, b) == \E i \in 1..(Len(s) - 1) : s[i] = a /\ s[i + 1] = b

MustReject(s) ==
    \/ HasPair(s, "/", "/")
    \/ Len(s) > 0 /\ s[1] = "/"
    \/ Len(s) > 0 /\ s[Len(s)] = "."
    \/ HasPair(s, "@", "{")
    \/ \E i \in 1..Len(s) : s[i] \in {"~", "^", ":", "?", "*", "[", "\\"}
    \/ s \in { <<".">>, <<".", ".">>, <<"/">>,
               <<"H", "E", "A", "D">>,
               <<"O", "R", "I", "G", "_", "H", "E", "A", "D">>,
               <<"F", "E", "T", "C", "H", "_", "H", "E", "A", "D">>,
               <<"M", "E", "R", "G", "E", "_", "H", "E", "A", "D">>,
               <<"C", "H", "E", "R", "R", "Y", "_", "P", "I", "C", "K", "_", "H", "E", "A", "D">> }

C15_ValidatorRejects ==
    (call.fn = "validate_branch_name" /\ call.done) =>
        /\ MustReject(call.branch_name) => ~call.result
        /\ call.branch_name = SyncOfAlice => call.result

\* a name of plain characters with a dot at its end was rejected
C15_Witness ==
    /\ call.fn = "validate_branch_name" /\ call.done
    /\ call.branch_name = <<"a", "a", ".">>
    /\ ~call.result

(***************************************************************************)
(* C16.  Identity resolution.  For a readable remote URL of one of the     *)
(* shapes git@host:owner/repo, ssh://git@host/owner/repo and               *)
(* https://host/owner/repo the branch name is sync-of-owner and no warning *)
(* is printed; otherwise it is sync-of-<OS account> with a warning.  The   *)
(* original statement takes every host; the amended one takes github.com   *)
(* only, every other host falling back to the OS account, and counts as a  *)
(* shape every URL that contains git@github.com:owner/.                    *)
(***************************************************************************)
\* the URL is of one of the three shapes of the claim
Shaped(c) ==
    /\ c.returncode = 0
    /\ c.rest # <<>>
    /\ \/ c.scheme = GitAt /\ c.sep = <<":">>
       \/ c.scheme = SshScheme /\ c.sep = <<"/">>
       \/ c.scheme = Https /\ c.sep = <<"/">>

\* ssh://git@github.com:owner/ contains git@github.com:owner/
ContainsShape(c) ==
    /\ c.returncode = 0
    /\ c.rest # <<>>
    /\ c.scheme = SshScheme /\ c.sep = <<":">>

Resolved(c)  == c.branch = SyncPrefix \o c.owner /\ ~c.warned
FellBack(c)  == c.branch = SyncPrefix \o c.os_user /\ c.warned

C16_AnyHost ==
    (call.fn = "get_sync_branch_name" /\ call.done) =>
        IF Shaped(call) THEN Resolved(call) ELSE FellBack(call)

C16_GithubOnly ==
    (call.fn = "get_sync_branch_name" /\ call.done) =>
        IF (Shaped(call) \/ ContainsShape(call)) /\ call.host = GithubCom
        THEN Resolved(call)
        ELSE FellBack(call)

\* an https URL of github.com was resolved to its owner
C16_Witness ==
    /\ call.fn = "get_sync_branch_name" /\ call.done
    /\ Url(call) = Https \o GithubCom \o <<"/", "a", "l", "/", "r", ".", "g", "i", "t">>
    /\ call.branch = SyncPrefix \o <<"a", "l">>

(***************************************************************************)
(* C17.  Two Publishers of one identity race on the remote transport       *)
(* branch: a Publisher that exited with status 0 after its push can find   *)
(* its snapshot gone from the remote, removed or replaced by the other's   *)
(* (the witness).  Nothing but the identity keeps Publishers apart: the    *)
(* snapshot of a successful Publisher is lost only to a Publisher of the   *)
(* same identity on the other machine, and what the branch then holds, if  *)
(* anything, is that Publisher's snapshot.                                 *)
(***************************************************************************)
\* the transport commit of the run of m
Snapshot(m) == Transport(pre[m].repo.wt, StartTip(m))

Published0(m) == Exited(m, "put") /\ proc[m].exit = 0 /\ Succeeded(m, "push")

Lost(m) ==
    \/ proc[m].sync_branch \notin DOMAIN remote
    \/ remote[proc[m].sync_branch] # Snapshot(m)

C17_LostToSameIdentity ==
    \A m \in Machines :
        (Published0(m) /\ Lost(m)) =>
            \E o \in Machines \ {m} :
                /\ cfg.user[o] = cfg.user[m]
                /\ \E i \in 1..Len(started) : started[i] = [machine |-> o, script |-> "put"]
                /\ proc[m].sync_branch \in DOMAIN remote
                       => remote[proc[m].sync_branch] = Snapshot(o)

\* both Publishers exited with status 0 after a push, and the remote branch
\* holds the snapshot of one of them only
C17_Witness ==
    /\ Published0("A") /\ Published0("B")
    /\ Snapshot("A") # Snapshot("B")
    /\ proc["A"].sync_branch = proc["B"].sync_branch
    /\ remote[proc["A"].sync_branch] = Snapshot("B")

(***************************************************************************)
(* C18.  A Publisher run in which the creation of the transport branch,    *)
(* the push, the switch back or the soft reset fails runs the cleanup      *)
(* after that failure: switch to the original branch, soft reset, deletion *)
(* of the local transport branch, all three whatever each returns, and     *)
(* exits with status 1.                                                    *)
(* Stated as the claim states it; only the failures of the creation and of *)
(* the push call cleanup_on_failure (see C3, C1).                          *)
(***************************************************************************)
\* the positions in the log at which one of the four steps failed
StepFailures(m) ==
    {i \in 1..Len(log[m]) :
        /\ log[m][i].rc # 0
        /\ \/ log[m][i].cmd \in {"switch_c", "switch", "reset_soft"}
           \/ log[m][i].cmd = "push" /\ \A j \in (i + 1)..Len(log[m]) : log[m][j].cmd # "push"}

\* the commands run after position i, the sleeps left out
CommandsAfter(m, i) ==
    LET rest == SelectSeq(SubSeq(log[m], i + 1, Len(log[m])), LAMBDA e : e.cmd # "sleep")
    IN  [k \in 1..Len(rest) |-> rest[k].cmd]

C18_FailureRunsCleanup ==
    \A m \in Machines :
        (Exited(m, "put") /\ StepFailures(m) # {}) =>
            LET first == CHOOSE i \in StepFailures(m) : \A j \in StepFailures(m) : i <= j
            IN  /\ proc[m].exit = 1
                /\ CommandsAfter(m, first) = <<"switch", "reset_soft", "branch_D">>

(***************************************************************************)
(* C19.  After a Consumer run that merged and exits with status 0 the      *)
(* working branch is the one the run started on and its tip is the commit  *)
(* it had before the run, whether the merge was a fast-forward over the    *)
(* transport commit alone or over several commits, a merge commit, or a    *)
(* merge with nothing to do.                                               *)
(* Stated as the claim states it; reset --soft HEAD~1 takes one commit off *)
(* the tip, which is the commit the merge added only when the merge added  *)
(* exactly one.                                                            *)
(***************************************************************************)
Consumed(m) == Exited(m, "get") /\ proc[m].exit = 0 /\ Succeeded(m, "merge")

C19_TipRestored ==
    \A m \in Machines : Consumed(m) => OnStartBranch(m)

(***************************************************************************)
(* C20.  A Consumer run issues the deletion of the remote transport branch *)
(* only after its merge and its soft reset succeeded, in that order, and   *)
(* after it tried to delete the local transport branch; a run that exits   *)
(* with status 1 has issued no remote deletion and leaves the remote as it *)
(* found it.                                                               *)
(***************************************************************************)
\* the position in the log of the first attempt of cmd
FirstAttempt(m, cmd) ==
    CHOOSE l \in 1..Len(log[m]) :
        /\ log[m][l].cmd = cmd
        /\ \A x \in 1..(l - 1) : log[m][x].cmd # cmd

C20_RemoteDeletionLast ==
    \A m \in Machines :
        proc[m].script = "get" =>
            /\ Issued(m, "push_delete") =>
                  LET l == FirstAttempt(m, "push_delete")
                  IN  /\ l > 3
                      /\ log[m][l - 3] = Entry("merge", proc[m].sync_branch, 0)
                      /\ log[m][l - 2] = Entry("reset_soft", NoName, 0)
                      /\ log[m][l - 1].cmd = "branch_D"
                      /\ log[m][l - 1].arg = proc[m].sync_branch
            /\ (proc[m].pc = "exit" /\ proc[m].exit = 1) =>
                  /\ ~Issued(m, "push_delete")
                  /\ remote = pre[m].remote

\* the remote branch was deleted by a run whose local deletion had failed
C20_Witness ==
    \E m \in Machines :
        /\ Exited(m, "get") /\ proc[m].exit = 0
        /\ Succeeded(m, "push_delete")
        /\ proc[m].sync_branch \notin DOMAIN remote
        /\ \E k \in 1..Len(log[m]) :
              log[m][k] = Entry("branch_D", proc[m].sync_branch, 1)

(***************************************************************************)
(* C21: a Publisher run executes its steps only in this order, never       *)
(* skipping one or running one early: stage, commit, delete the previous   *)
(* remote transport branch, create the local transport branch, push,       *)
(* switch back, soft reset, delete the local transport branch; once a step *)
(* has failed the run never reaches the successful end.                    *)
(* As stated the claim is violated: the result of the remote deletion is   *)
(* ignored (line 215), so a run whose remote deletion failed goes on to    *)
(* status 0.  The order holds, and so does the second half for the steps   *)
(* whose result main() tests with an exit: stage, commit, create, push and *)
(* switch back.                                                            *)
(***************************************************************************)
PutOrder ==
    <<"add", "commit", "push_delete", "switch_c", "push", "switch", "reset_soft", "branch_D">>

\* the commands of the run without the sleeps of the retry loops
Commands(m) == SelectSeq(log[m], LAMBDA e : e.cmd # "sleep")

\* one entry for each step: the last attempt of every retried command
Steps(m) ==
    LET c    == Commands(m)
        ends == {i \in 1..Len(c) : i = Len(c) \/ c[i + 1].cmd # c[i].cmd}
    IN  [k \in 1..Cardinality(ends) |->
            c[CHOOSE i \in ends : Cardinality({j \in ends : j <= i}) = k]]

\* the steps after whose failure main() leaves with status 1
Stopping == {"add", "commit", "switch_c", "push", "switch"}

FailedSteps(m, cmds) ==
    {k \in 1..Len(Steps(m)) : Steps(m)[k].cmd \in cmds /\ Steps(m)[k].rc # 0}

\* up to its first stopping failure the run is a prefix of PutOrder, and the
\* successful end is reached with all eight steps only
PutInOrder(m) ==
    LET s    == Steps(m)
        bad  == FailedSteps(m, Stopping)
        n    == IF bad = {} THEN Len(s) ELSE CHOOSE k \in bad : \A j \in bad : k <= j
    IN  /\ n <= Len(PutOrder)
        /\ \A k \in 1..n : s[k].cmd = PutOrder[k]
        /\ (proc[m].pc = "exit" /\ proc[m].exit = 0 /\ s # <<>>) => Len(s) = Len(PutOrder)

StalePublished(m) ==
    /\ proc[m].sync_branch \in DOMAIN pre[m].remote
    /\ \A i \in 1..Len(log[m]) : log[m][i].cmd = "push_delete" => log[m][i].rc = RcFail

\* every local command of the run returned 0 and no push attempt timed out
OthersAccepted(m) ==
    /\ \A i \in 1..Len(log[m]) :
          log[m][i].cmd \notin {"push_delete", "sleep"} => log[m][i].rc # RcTimeout
    /\ \A cmd \in {"add", "commit", "switch_c"} : ~Failed(m, cmd)

C22_PushOverwrites ==
    \A m \in Machines :
        proc[m].script = "put" =>
            \* the deletion's result does not change the control flow
            /\ (Issued(m, "push_delete") /\ proc[m].pc \notin {"put_delete_remote", "exit"})
                  => Issued(m, "switch_c") \/ proc[m].pc = "put_create"
            \* the push overwrites what the failed deletion left
            /\ (/\ Exited(m, "put")
                /\ OpFailed(m, "push_delete")
                /\ StalePublished(m)
                /\ pre[m].remote[proc[m].sync_branch] # Snapshot(m)
                /\ OthersAccepted(m))
                  => /\ proc[m].exit = 0
                     /\ remote[proc[m].sync_branch] = Snapshot(m)

(***************************************************************************)
(* C23: validate_branch_name returns FALSE for every name that contains    *)
(* two consecutive dots (for example a..b), not only for the reserved      *)
(* token .. itself.                                                        *)
(* Stated as the claim states it.  The lookahead of the pattern (line 107) *)
(* forbids a dot at the end, /. , // and @{ but has no alternative for two *)
(* dots in a row, and the character class admits the dot, so a name such   *)
(* as ..a or a..b matches.                                                 *)
(***************************************************************************)
C23_RejectsDoubleDot ==
    (call.fn = "validate_branch_name" /\ call.done /\ HasPair(call.branch_name, ".", "."))
        => ~call.result

(***************************************************************************)
(* C24: every branch name from which Publisher or Consumer creates a local *)
(* branch has passed validate_branch_name earlier in the same run; in      *)
(* Consumer this includes a transport branch name chosen by the user at    *)
(* the selection prompt.                                                   *)
(* Stated as the claim states it.  proc[m].validated holds the names the   *)
(* run has passed to validate_branch_name with the answer True: the        *)
(* Consumer calls it once, on the default name (line 265), and neither on  *)
(* the name select_sync_branch returns nor on the backup name.             *)
(***************************************************************************)
\* the commands that create a local branch: git switch -c
Creates == {"switch_c", "switch_track"}

C24_CreatedNamesValidated ==
    \A m \in Machines :
        \A i \in 1..Len(log[m]) :
            log[m][i].cmd \in Creates => log[m][i].arg \in proc[m].validated

(***************************************************************************)
(* C25: a Consumer run that stops during the resolution of the transport   *)
(* branch (the user cancels at the prompt, no sync-of- branch exists       *)
(* remotely, or the chosen branch does not exist remotely) has created and *)
(* deleted no local branch, has left the working tree and the current      *)
(* branch unchanged and has issued no remote deletion; the exit status is  *)
(* 0 for a cancel and 1 otherwise.                                         *)
(***************************************************************************)
\* the branch the resolution arrived at was on the remote neither at the
\* start of the run nor among the remote-tracking branches of the clone
AbsentTransport(m) ==
    /\ proc[m].sync_branch # NoName
    /\ proc[m].sync_branch \notin DOMAIN pre[m].remote
    /\ proc[m].sync_branch \notin DOMAIN pre[m].repo.rt

ResolutionStopped(m) ==
    /\ Exited(m, "get")
    /\ Succeeded(m, "fetch")
    /\ Cancelled(m) \/ AbsentTransport(m)

C25_ResolutionStopTouchesNothing ==
    \A m \in Machines :
        ResolutionStopped(m) =>
            /\ \A i \in 1..Len(log[m]) : log[m][i].cmd \in {"fetch", "sleep"}
            /\ repo[m].br = pre[m].repo.br
            /\ repo[m].head = pre[m].repo.head
            /\ repo[m].wt = pre[m].repo.wt
            /\ repo[m].idx = pre[m].repo.idx
            /\ proc[m].made_backup = NoName
            /\ proc[m].exit = IF Cancelled(m) THEN 0 ELSE 1

\* the user cancelled with a dirty working tree and an earlier backup branch
\* in the clone
C25_Witness ==
    \E m \in Machines :
        /\ ResolutionStopped(m) /\ Cancelled(m)
        /\ ~Clean(repo[m])
        /\ Backups(repo[m]) # {}

(***************************************************************************)
(* C26: transport resolution in the Consumer.  When the default            *)
(* sync-of-<identity> branch exists remotely it is used and no prompt is   *)
(* shown; the prompt is shown only when the default is absent and at least *)
(* one remote sync-of- branch exists; it lists the default as entry 1,     *)
(* then the other candidates, then a cancel entry; a blank answer returns  *)
(* the default, index i returns entry i, the cancel index returns no       *)
(* branch, and any other input asks again without changing state.          *)
(* proc[m].choice is empty until the user has answered and holds the last  *)
(* answer afterwards.                                                      *)
(***************************************************************************)
\* the run is past the resolution and has run no command since the fetch:
\* the remote-tracking branches are those the resolution saw
JustResolved(m) ==
    /\ proc[m].script = "get"
    /\ proc[m].pc \notin {"get_fetch", "get_resolve"}
    /\ Succeeded(m, "fetch")
    /\ \A i \in 1..Len(log[m]) : log[m][i].cmd \in {"fetch", "sleep"}

\* what an answer to a prompt of n entries must lead to
Answer(m, entries, choice) ==
    LET i == ParseInt(choice)
    IN  IF choice = <<>> THEN proc[m].pc # "get_prompt" /\ proc[m].sync_branch = entries[1]
        ELSE IF 1 <= i /\ i <= Len(entries)
             THEN proc[m].pc # "get_prompt" /\ proc[m].sync_branch = entries[i]
        ELSE IF i = Len(entries) + 1
             THEN Exited(m, "get") /\ proc[m].exit = 0 /\ proc[m].sync_branch = NoName
        ELSE /\ proc[m].pc = "get_prompt" /\ proc[m].sync_branch = NoName
             /\ repo[m].br = pre[m].repo.br /\ repo[m].head = pre[m].repo.head
             /\ repo[m].wt = pre[m].repo.wt /\ repo[m].idx = pre[m].repo.idx

C26_TransportResolution ==
    \A m \in Machines :
        JustResolved(m) =>
            LET default == proc[m].default_sync_branch
                listed  == list_remote_sync_branches(repo[m])
                there   == default \in DOMAIN repo[m].rt
                entries == <<default>> \o Without(listed, default)
            IN  /\ there => ~proc[m].prompted /\ proc[m].sync_branch = default
                /\ proc[m].prompted <=> (~there /\ listed # <<>>)
                /\ (~there /\ listed = <<>>) => proc[m].sync_branch = default
                /\ proc[m].prompted =>
                      IF proc[m].choice = <<>>
                      THEN proc[m].pc = "get_prompt" /\ proc[m].sync_branch = NoName
                      ELSE Answer(m, entries, proc[m].choice[1])

\* the user picked entry 2, a candidate other than the default
C26_Witness ==
    \E m \in Machines :
        /\ JustResolved(m) /\ proc[m].prompted
        /\ proc[m].choice = << <<"2">> >>
        /\ proc[m].sync_branch # proc[m].default_sync_branch
        /\ proc[m].pc = "get_backup"

(***************************************************************************)
(* C27: in the Consumer, once the merge and the soft reset have succeeded, *)
(* a failure to delete the local transport branch or to delete the remote  *)
(* transport branch (timeout exhausted or other error) does not abort the  *)
(* run: the remaining steps still execute and the run exits with status 0. *)
(***************************************************************************)
C27_DeletionFailuresAreWarnings ==
    \A m \in Machines :
        (Exited(m, "get") /\ Succeeded(m, "merge") /\ Succeeded(m, "reset_soft")) =>
            /\ proc[m].exit = 0
            /\ \E i \in 1..Len(log[m]) :
                  log[m][i].cmd = "branch_D" /\ log[m][i].arg = proc[m].sync_branch
            /\ proc[m].sync_branch = proc[m].default_sync_branch =>
                  /\ Issued(m, "push_delete")
                  /\ log[m][Len(log[m])].cmd \in {"push_delete", "sleep"}

\* the local deletion failed, the remote deletion was tried all the same and
\* timed out three times
C27_Witness ==
    \E m \in Machines :
        /\ Exited(m, "get") /\ proc[m].exit = 0
        /\ AllTimedOut(m, "push_delete") /\ Attempts(m, "push_delete") = MaxAttempts
        /\ log[m][FirstAttempt(m, "push_delete") - 1] = Entry("branch_D", proc[m].sync_branch, 1)

(***************************************************************************)
(* C28: if the fetch ultimately fails in the Consumer (three timeouts, or  *)
(* a non-timeout error on any attempt), the run exits with status 1 before *)
(* resolving a transport branch and before any local branch is created or  *)
(* deleted, leaving working tree, backups and remote branches unchanged.   *)
(***************************************************************************)
\* fetch_updates has returned a non-zero code
FetchFailed(m) ==
    /\ proc[m].script = "get"
    /\ OpFailed(m, "fetch")
    /\ AllTimedOut(m, "fetch") => Attempts(m, "fetch") = MaxAttempts

C28_FetchFailureStops ==
    \A m \in Machines :
        FetchFailed(m) =>
            /\ proc[m].pc = "exit" /\ proc[m].exit = 1
            /\ proc[m].sync_branch = NoName /\ ~proc[m].prompted
            /\ \A i \in 1..Len(log[m]) : log[m][i].cmd \in {"fetch", "sleep"}
            /\ repo[m].br = pre[m].repo.br
            /\ repo[m].head = pre[m].repo.head
            /\ repo[m].wt = pre[m].repo.wt
            /\ repo[m].idx = pre[m].repo.idx
            /\ remote = pre[m].remote

\* the second attempt failed with an error after a timeout, in a clone with
\* a dirty working tree and an earlier backup branch
C28_Witness ==
    \E m \in Machines :
        /\ FetchFailed(m)
        /\ Attempts(m, "fetch") = 2
        /\ ~Clean(repo[m])
        /\ Backups(repo[m]) # {}
        /\ SyncA \in DOMAIN remote

(***************************************************************************)
(* One machine that both publishes and consumes, in a clone that holds a   *)
(* backup branch of an earlier Consumer run, with every outcome of every   *)
(* command.  The remote holds the transport branch of another identity.    *)
(***************************************************************************)
InitKeep ==
    /\ remote = SetRef(SetRef(NoRefs, Main, C0), SyncA, Transport(MkTree(2, 0), C0))
    /\ \E w \in WorkStates(C0) :
          repo = [m \in Machines |->
                    IF m = "B"
                    THEN [Clone(C0, w[1], w[2]) EXCEPT !.br = SetRef(@, BackupName(0), C0)]
                    ELSE CleanClone(C0)]
    /\ cfg = [faults |-> TRUE, concurrent |-> FALSE,
              user |-> [m \in Machines |-> UserB],
              scripts |-> [m \in Machines |-> IF m = "B" THEN {"put", "get"} ELSE {}]]
    /\ NoBehaviour

SpecKeep == InitKeep /\ [][NextRuns]_vars

(***************************************************************************)
(* C29: the backup step runs only in the Consumer and only when the        *)
(* working tree is dirty at that point: a Consumer run that finds no       *)
(* staged or unstaged differences creates no backup_ branch and deletes no *)
(* existing backup_ branch, and the Publisher never creates or deletes a   *)
(* backup_ branch.                                                         *)
(* No command before the backup step changes index or working tree, so     *)
(* what has_changes finds there is what the two diffs find at the start.   *)
(***************************************************************************)
NoDifferences(r) == GitDiffCached(r) = 0 /\ GitDiff(r) = 0

\* no command of the run that creates or deletes a branch names a backup_
\* branch, and the backup_ branches of the clone are those of the start
BackupsUntouched(m) ==
    /\ \A i \in 1..Len(log[m]) :
          log[m][i].cmd \in Creates \cup {"branch_D"} => ~StartsWith(log[m][i].arg, BackupPrefix)
    /\ proc[m].made_backup = NoName
    /\ Backups(repo[m]) = Backups(pre[m].repo)

C29_BackupOnlyWhenDirty ==
    \A m \in Machines :
        /\ proc[m].script = "put" => BackupsUntouched(m)
        /\ (proc[m].script = "get" /\ NoDifferences(pre[m].repo)) => BackupsUntouched(m)

\* a Consumer run with nothing to back up went through to the end and left
\* the earlier backup branch of the clone alone
C29_Witness ==
    \E m \in Machines :
        /\ Exited(m, "get") /\ proc[m].exit = 0
        /\ NoDifferences(pre[m].repo)
        /\ Succeeded(m, "merge")
        /\ Backups(repo[m]) # {}

(***************************************************************************)
(* C30: once a Consumer run has created its backup branch, no later step   *)
(* of that run deletes or moves it, whichever later step fails (switch     *)
(* back, checkout of the transport branch, merge, soft reset, local or     *)
(* remote deletion): the backup branch exists at the end of the run,       *)
(* pointing at the commit it was created on.                               *)
(* create_backup_branch runs git switch -c on the commit the run started   *)
(* on; the property is stated for every state from the creation on.        *)
(***************************************************************************)
C30_BackupKept ==
    \A m \in Machines :
        (proc[m].script = "get" /\ proc[m].made_backup # NoName) =>
            /\ proc[m].made_backup \in DOMAIN repo[m].br
            /\ repo[m].br[proc[m].made_backup] = StartTip(m)

\* the run made its backup branch, merged, and failed at the soft reset
C30_Witness ==
    \E m \in Machines :
        /\ Exited(m, "get") /\ proc[m].exit = 1
        /\ proc[m].made_backup # NoName
        /\ Succeeded(m, "merge")
        /\ Failed(m, "reset_soft")

(***************************************************************************)
(* C31: in every successful Consumer run that created a backup branch, the *)
(* run reports that backup branch's name at the end, taking the name from  *)
(* the standard output of the branch-creation command.                     *)
(* Stated as the claim states it.  proc[m].backup_branch is what line 324  *)
(* extracts and what lines 396-400 report when it is not None; git switch  *)
(* writes its "Switched to a new branch" message to standard error, so the *)
(* standard output run_command returns is empty.                           *)
(***************************************************************************)
C31_BackupReported ==
    \A m \in Machines :
        (Exited(m, "get") /\ proc[m].exit = 0 /\ proc[m].made_backup # NoName) =>
            proc[m].backup_branch = proc[m].made_backup

(***************************************************************************)
(* Machine A publishes while machine B consumes, at the same time, with    *)
(* an earlier publication of A's identity on the remote; no command fails. *)
(***************************************************************************)
InitOverlap ==
    /\ remote = SetRef(SetRef(NoRefs, Main, C0), SyncA, Transport(MkTree(2, 0), C0))
    /\ \E a \in {MkTree(0, 0), MkTree(1, 1)}, b \in {C0.tree, MkTree(1, 1)} :
          repo = [m \in Machines |->
                    IF m = "A" THEN Clone(C0, C0.tree, a) ELSE Clone(C0, C0.tree, b)]
    /\ \E u \in {UserA, UserB} :
          cfg = [faults |-> FALSE, concurrent |-> TRUE,
                 user |-> [m \in Machines |-> IF m = "B" THEN u ELSE UserA],
                 scripts |-> [m \in Machines |-> IF m = "A" THEN {"put"} ELSE {"get"}]]
    /\ NoBehaviour

SpecOverlap == InitOverlap /\ [][Next]_vars

(***************************************************************************)
(* C32: when the Consumer deletes the remote transport branch at the end   *)
(* of a run, the remote branch's tip at that moment is the transport       *)
(* commit that this run fetched and merged: with a Publisher of the same   *)
(* identity running concurrently, the Consumer never deletes a transport   *)
(* commit it has not consumed.                                             *)
(* Stated as the claim states it, as a property of the step that deletes.  *)
(* The commit the run fetched is the one its remote-tracking branch holds: *)
(* the run fetches once, at its start.                                     *)
(***************************************************************************)
\* the step of machine m in which its remote deletion goes through
DeletesRemote(m) ==
    /\ proc[m].script = "get" /\ proc[m].pc = "get_delete_remote"
    /\ log'[m] # log[m]
    /\ proc[m].sync_branch \in DOMAIN remote
    /\ proc[m].sync_branch \notin DOMAIN remote'

C32_DeletesOnlyConsumed ==
    [][\A m \in Machines :
          DeletesRemote(m) => remote[proc[m].sync_branch] = repo[m].rt[proc[m].sync_branch]]_vars

(***************************************************************************)
(* C33: a Consumer run that is started after an earlier Consumer run       *)
(* aborted on a merge conflict, so that the local transport branch left by *)
(* the earlier run still exists, can complete: it reaches the merge step   *)
(* again instead of failing at the creation of the local tracking branch.  *)
(* Stated as the claim states it, for the runs in which no command fails   *)
(* for a reason outside git: a run that finds the local transport branch   *)
(* and gets as far as the checkout goes on to the merge.                   *)
(***************************************************************************)
\* the run found the local transport branch of an earlier run, which had
\* switched back to the working branch: it stopped at the merge
LeftOver(m) ==
    /\ proc[m].script = "get"
    /\ proc[m].sync_branch # NoName
    /\ proc[m].sync_branch \in DOMAIN pre[m].repo.br
    /\ pre[m].repo.head # proc[m].sync_branch

C33_RerunReachesMerge ==
    \A m \in Machines :
        (Exited(m, "get") /\ LeftOver(m) /\ Issued(m, "switch_track")) => Issued(m, "merge")

(***************************************************************************)
(* C34: whenever the working tree contains any uncommitted change,         *)
(* including a tree whose only changes are untracked files, the Publisher  *)
(* does not take the nothing-to-sync exit: it stages and publishes the     *)
(* changes; and the Consumer treats such a tree as dirty and runs the      *)
(* backup step.                                                            *)
(* Stated as the claim states it.  has_changes asks git diff --cached and  *)
(* git diff, and neither reports a file that is not in the index.          *)
(***************************************************************************)
\* the run started with an uncommitted change of any kind
Uncommitted(m) == ~Clean(pre[m].repo)

C34_AnyChangeIsDirty ==
    \A m \in Machines :
        /\ (Exited(m, "put") /\ Uncommitted(m) /\ proc[m].current_branch # NoName) =>
              ~(proc[m].exit = 0 /\ log[m] = <<>>)
        /\ (proc[m].script = "get" /\ Uncommitted(m) /\ Issued(m, "switch_track")) =>
              \E i \in 1..Len(log[m]) :
                  log[m][i].cmd = "switch_c" /\ StartsWith(log[m][i].arg, BackupPrefix)

(***************************************************************************)
(* C35: in every Consumer run in which the selection prompt was shown,     *)
(* choosing the default entry (entry 1 or a blank answer) ends the run     *)
(* with status 1 as a missing transport branch, so a run that showed the   *)
(* prompt never issues a remote deletion: the remote transport branch is   *)
(* deleted only in runs where the default branch existed remotely right    *)
(* after the fetch.                                                        *)
(***************************************************************************)
\* the answer at the prompt stood for the default entry
ChoseDefault(m) ==
    /\ proc[m].prompted
    /\ proc[m].choice \in { << <<>> >>, << <<"1">> >> }

\* the transport branch of the run was on the remote and is there no longer
RemoteDeleted(m) ==
    /\ proc[m].script = "get"
    /\ proc[m].sync_branch \in DOMAIN pre[m].remote
    /\ proc[m].sync_branch \notin DOMAIN remote

C35_PromptNeverDeletesRemote ==
    \A m \in Machines :
        /\ ChoseDefault(m) =>
              /\ Exited(m, "get") /\ proc[m].exit = 1
              /\ proc[m].sync_branch = proc[m].default_sync_branch
              /\ proc[m].sync_branch \notin DOMAIN repo[m].rt
              /\ \A i \in 1..Len(log[m]) : log[m][i].cmd \in {"fetch", "sleep"}
        /\ (proc[m].script = "get" /\ proc[m].prompted) =>
              /\ ~Issued(m, "push_delete")
              /\ remote = pre[m].remote
        /\ RemoteDeleted(m) =>
              /\ ~proc[m].prompted
              /\ proc[m].sync_branch = proc[m].default_sync_branch

\* a run that showed the prompt consumed the branch of another identity
\* and left it on the remote
C35_Witness ==
    \E m \in Machines :
        /\ Exited(m, "get") /\ proc[m].exit = 0
        /\ proc[m].prompted
        /\ Succeeded(m, "merge")
        /\ proc[m].sync_branch \in DOMAIN remote

====
